---------------------------- MODULE Spec2Model ----------------------------
(***************************************************************************)
(* Model of backend/user_analysis.py (class PolymarketAnalyzer): the       *)
(* paginated fetch loops, the per-market cash-flow ledger of analyze_user, *)
(* the win/loss classification, the duplicate/hedge detection and the      *)
(* collection of one user's row by run.                                    *)
(*                                                                         *)
(* Python floats are IEEE-754 binary64.  They are modelled exactly: a      *)
(* float is a sign and a magnitude, the magnitude a natural number of      *)
(* units of 2^-FracBits held in NLimbs limbs of LimbBits bits (least       *)
(* significant first).  Every arithmetic result is rounded to MantBits     *)
(* significant bits, ties to even, as the hardware does.                   *)
(***************************************************************************)
EXTENDS Integers, Sequences, FiniteSets, TLC

(***************************************************************************)
(* Bounds of the model.                                                    *)
(***************************************************************************)
MaxRecords == 3
MaxRequests == 4
MaxUserRequests == 4
MaxUsers == 4
MaxRows == 3
MaxTaskRequests == 3
MaxPages == 3
MaxPageRows == 3

(***************************************************************************)
(* binary64 arithmetic.                                                    *)
(***************************************************************************)
MantBits == 53
LimbBits == 16
NLimbs == 6
FracBits == 64

Base == 2^LimbBits
Limbs == 1..NLimbs

BigZero == [i \in Limbs |-> 0]

\* a + b, limb by limb from limb k with the carry so far
RECURSIVE AddLimbs(_, _, _, _)
AddLimbs(a, b, k, carry) ==
    IF k > NLimbs THEN <<>>
    ELSE <<(a[k] + b[k] + carry) % Base>>
            \o AddLimbs(a, b, k + 1, (a[k] + b[k] + carry) \div Base)

BigAdd(a, b) == AddLimbs(a, b, 1, 0)

\* a - b for a >= b, with the borrow so far
RECURSIVE SubLimbs(_, _, _, _)
SubLimbs(a, b, k, borrow) ==
    IF k > NLimbs THEN <<>>
    ELSE <<(a[k] - b[k] - borrow + Base) % Base>>
            \o SubLimbs(a, b, k + 1, IF a[k] - b[k] - borrow < 0 THEN 1 ELSE 0)

BigSub(a, b) == SubLimbs(a, b, 1, 0)

RECURSIVE LessFrom(_, _, _)
LessFrom(a, b, k) ==
    IF k = 0 THEN FALSE
    ELSE IF a[k] # b[k] THEN a[k] < b[k]
    ELSE LessFrom(a, b, k - 1)

BigLess(a, b) == LessFrom(a, b, NLimbs)

RECURSIVE IntBitLen(_)
IntBitLen(n) == IF n = 0 THEN 0 ELSE 1 + IntBitLen(n \div 2)

RECURSIVE BitLenFrom(_, _)
BitLenFrom(a, k) ==
    IF k = 0 THEN 0
    ELSE IF a[k] # 0 THEN (k - 1) * LimbBits + IntBitLen(a[k])
    ELSE BitLenFrom(a, k - 1)

BigBitLen(a) == BitLenFrom(a, NLimbs)

\* 2^q
BigPow2(q) ==
    [i \in Limbs |-> IF (q \div LimbBits) + 1 = i THEN 2^(q % LimbBits) ELSE 0]

\* a mod 2^q
BigLow(a, q) ==
    [i \in Limbs |->
        IF i * LimbBits <= q THEN a[i]
        ELSE IF (i - 1) * LimbBits >= q THEN 0
        ELSE a[i] % 2^(q - (i - 1) * LimbBits)]

\* bit q of a
BigBit(a, q) == (a[(q \div LimbBits) + 1] \div 2^(q % LimbBits)) % 2

\* a * c for a small c
RECURSIVE MulLimbs(_, _, _, _)
MulLimbs(a, c, k, carry) ==
    IF k > NLimbs THEN <<>>
    ELSE <<(a[k] * c + carry) % Base>>
            \o MulLimbs(a, c, k + 1, (a[k] * c + carry) \div Base)

BigMulSmall(a, c) == MulLimbs(a, c, 1, 0)

\* a divided by a small d, from the top limb down with the remainder so
\* far: the quotient's limbs, and in front of them the last remainder
RECURSIVE DivLimbs(_, _, _, _)
DivLimbs(a, d, k, rem) ==
    IF k = 0 THEN <<rem>>
    ELSE DivLimbs(a, d, k - 1, (rem * Base + a[k]) % d)
            \o <<(rem * Base + a[k]) \div d>>

BigDivSmall(a, d) == Tail(DivLimbs(a, d, NLimbs, 0))

BigModSmall(a, d) == Head(DivLimbs(a, d, NLimbs, 0))

\* Round the magnitude a to MantBits significant bits, nearest, ties to
\* even; sticky says that the exact value lies strictly above a.
RoundSig(a, sticky) ==
    LET L == BigBitLen(a) IN
    IF L <= MantBits THEN a
    ELSE LET q    == L - MantBits
             low  == BigLow(a, q)
             half == BigPow2(q - 1)
             down == BigSub(a, low)
             up   == BigLess(half, low)
                       \/ (low = half /\ (sticky \/ BigBit(a, q) = 1))
         IN IF up THEN BigAdd(down, BigPow2(q)) ELSE down

FZero == [neg |-> FALSE, mag |-> BigZero]

Norm(x) == IF x.mag = BigZero THEN FZero ELSE x

\* The exact sum of two signed values, not rounded.
ExactAdd(x, y) ==
    Norm(IF x.neg = y.neg THEN [neg |-> x.neg, mag |-> BigAdd(x.mag, y.mag)]
         ELSE IF BigLess(x.mag, y.mag)
              THEN [neg |-> y.neg, mag |-> BigSub(y.mag, x.mag)]
              ELSE [neg |-> x.neg, mag |-> BigSub(x.mag, y.mag)])

FNeg(x) == Norm([neg |-> ~x.neg, mag |-> x.mag])

\* abs left out: the value with its sign.
FAbsSigned(x) == x

FAbs(x) == [neg |-> FALSE, mag |-> x.mag]

\* x + y and x - y of two floats
FAdd(x, y) ==
    LET s == ExactAdd(x, y) IN [neg |-> s.neg, mag |-> RoundSig(s.mag, FALSE)]

FSub(x, y) == FAdd(x, FNeg(y))

\* x < y
FLess(x, y) ==
    IF x.neg # y.neg THEN x.neg
    ELSE IF x.neg THEN BigLess(y.mag, x.mag) ELSE BigLess(x.mag, y.mag)

\* The float nearest to the decimal k/1000 (k >= 0): what float() and the
\* JSON decoder make of the literal.
FromMilli(k) ==
    LET num == BigMulSmall(BigPow2(FracBits), k)
    IN [neg |-> FALSE,
        mag |-> RoundSig(BigDivSmall(num, 1000), BigModSmall(num, 1000) # 0)]

\* round(x, 2) for x >= 0: the number of hundredths nearest to x, ties to
\* even on the exact binary value; the float returned is the one nearest
\* to that decimal.
RoundCents(x) ==
    LET m    == BigMulSmall(x.mag, 100)
        hi   == FracBits \div LimbBits
        q    == m[hi + 1] + m[hi + 2] * Base
        low  == BigLow(m, FracBits)
        half == BigPow2(FracBits - 1)
    IN IF BigLess(half, low) \/ (low = half /\ q % 2 = 1) THEN q + 1 ELSE q

Round2(x) == FromMilli(10 * RoundCents(x))

(***************************************************************************)
(* Raw records, as the data API returns them.  A number is the decimal     *)
(* literal milli/1000; a text is a value float() cannot parse.             *)
(***************************************************************************)
None == "None"

Number(milli) == [json |-> "number", milli |-> milli]
Text == [json |-> "text", milli |-> 0]

Activity(slug, type, side, usdcSize, outcome) ==
    [slug |-> slug, type |-> type, side |-> side,
     usdcSize |-> usdcSize, outcome |-> outcome]

Position(slug, eventSlug, currentValue) ==
    [slug |-> slug, eventSlug |-> eventSlug, currentValue |-> currentValue]

\* Truthy with every value taken as true.
TruthyAlways(s) == TRUE

\* Python truthiness of an optional string
Truthy(s) == s # None /\ s # ""

\* float(v): defined for a number only, a text raises ValueError
Parseable(v) == v.json = "number"
ToFloat(v) == FromMilli(v.milli)

MarketKeys == {"a", "b"}

\* Whole-dollar records of two markets: every kind of activity, a BUY with
\* no outcome, a record with no slug and one float() cannot parse.
ActivityRecords ==
    { Activity("a", "TRADE", "BUY", Number(10000), "Yes"),
      Activity("a", "TRADE", "BUY", Number(5000), "No"),
      Activity("a", "TRADE", "SELL", Number(12000), "Yes"),
      Activity("a", "REDEEM", None, Number(25000), None),
      Activity("a", "MERGE", None, Number(12000), None),
      Activity("b", "TRADE", "BUY", Number(5000), "Yes"),
      Activity("a", "TRADE", "BUY", Number(5000), None),
      Activity("a", "REWARD", None, Number(5000), None),
      Activity(None, "REDEEM", None, Number(25000), None),
      Activity("a", "TRADE", "BUY", Text, "Yes") }

PositionRecords ==
    { Position("a", "a", Number(5000)),
      Position(None, "b", Number(5000)),
      Position(None, None, Number(5000)),
      Position("a", "a", Text) }

\* Records down to a tenth of a cent, around the dead zone.
CentsActivityRecords ==
    { Activity("a", "TRADE", "BUY", Number(10000), "Yes"),
      Activity("a", "TRADE", "BUY", Number(5000), "No"),
      Activity("a", "REDEEM", None, Number(25000), None),
      Activity("a", "MERGE", None, Number(12000), None),
      Activity("a", "TRADE", "SELL", Number(100), "Yes"),
      Activity("a", "TRADE", "SELL", Number(200), "Yes"),
      Activity("a", "TRADE", "SELL", Number(10), "Yes"),
      Activity("a", "TRADE", "BUY", Number(10), "Yes"),
      Activity("a", "REDEEM", None, Number(11), None),
      Activity("a", "TRADE", "BUY", Number(11), "Yes"),
      Activity("b", "REDEEM", None, Number(11), None) }

CentsPositionRecords ==
    { Position("a", "a", Number(5000)) }

\* Records of cents whose sum depends on the order of the additions,
\* beside records of whole dollars.
OrderActivityRecords ==
    { Activity("a", "TRADE", "BUY", Number(10), "Yes"),
      Activity("a", "TRADE", "BUY", Number(190), "No"),
      Activity("a", "TRADE", "SELL", Number(190), "Yes"),
      Activity("a", "TRADE", "BUY", Number(10000), "Yes"),
      Activity("a", "REDEEM", None, Number(25000), None),
      Activity("b", "TRADE", "BUY", Number(5000), "Yes") }

OrderPositionRecords ==
    { Position("a", "a", Number(5000)),
      Position(None, "b", Number(5000)) }

\* A file that is not there, and a file of lines.
NoFile == [exists |-> FALSE]
File(lines) == [exists |-> TRUE, lines |-> lines]

\* The limit argument: left out, or a number.
NoLimit == [given |-> FALSE]
Limit(n) == [given |-> TRUE, n |-> n]

SeqsUpTo(S, n) == UNION {[1..k -> S] : k \in 0..n}

VARIABLES
    pc,                 \* where the analysis of the user stands
    offset,             \* the running fetch loop's offset
    requests,           \* the page requests made so far, with their answers
    activities,         \* what fetch_user_activity returned
    positions,          \* what fetch_user_positions returned
    i, j,               \* the loops' places in activities and positions
    market_cashflow, market_outcomes, market_buys, market_slugs,
    todo,               \* the slugs the metrics loop has still to visit
    wins, losses, total_won, total_lost,
    duplicated_bets_count, duplicated_diff_outcome, duplicated_details,
    ret,                \* <<summary>> once analyze_user has returned
    results,            \* the rows run has collected
    csv,                \* the input table on disk: its state and its rows
    user_limit,         \* the --limit / --user-limit argument
    df,                 \* the table as loaded
    future_to_user,     \* the state of each submitted future, by row
    output,             \* the output file
    count, first_write, all_stats,      \* main of analyze_user.py
    unique_bets_data,   \* the rows of text extract_and_analyze_bets found
    bet_history,        \* its groups of bets by (title, outcome)
    tasks,              \* the fetch loops of the users running in the pool
    page,               \* the rows of bets of the profile page, top to bottom
    view,               \* the rows of the page that are rendered
    last_height, scroll_attempts,       \* the scroll loop
    bet_limit           \* the --bet-limit argument

ledger == <<market_cashflow, market_outcomes, market_buys, market_slugs>>
metrics == <<wins, losses, total_won, total_lost, duplicated_bets_count,
             duplicated_diff_outcome, duplicated_details>>
analysis == <<i, j, ledger, todo, metrics, ret, results>>
scrape == <<page, view, last_height, scroll_attempts, bet_limit>>
batch == <<csv, user_limit, df, future_to_user, output, count, first_write,
           all_stats, unique_bets_data, bet_history, tasks, scrape>>
vars == <<pc, offset, requests, activities, positions, analysis, batch>>

User == [Name |-> "alice", Wallet |-> "0xa11ce",
         ProfileURL |-> "https://polymarket.com/profile/0xa11ce"]

(***************************************************************************)
(* analyze_user: the ledger.                                               *)
(***************************************************************************)
\* IsBuy with every trade taken as a BUY.
IsBuyAnyTrade(type, side) == type = "TRADE"

\* "if type_ == 'TRADE' and side == 'BUY'"
IsBuy(type, side) == type = "TRADE" /\ side = "BUY"

\* ActivityCashflow with the SELL branch booking cash out.
ActivityCashflowSellOut(type, side, cashflow, usdc) ==
    IF type = "TRADE" /\ side \in {"BUY", "SELL"} THEN FSub(cashflow, usdc)
    ELSE IF type = "REDEEM" THEN FAdd(cashflow, usdc)
    ELSE IF type = "MERGE" THEN FAdd(cashflow, usdc)
    ELSE cashflow

\* The new cash flow of the record's market.
ActivityCashflow(type, side, cashflow, usdc) ==
    IF type = "TRADE" /\ side = "BUY" THEN FSub(cashflow, usdc)
    ELSE IF type = "TRADE" /\ side = "SELL" THEN FAdd(cashflow, usdc)
    ELSE IF type = "REDEEM" THEN FAdd(cashflow, usdc)
    ELSE IF type = "MERGE" THEN FAdd(cashflow, usdc)
    ELSE cashflow

\* AddOutcome keeping the last label only.
AddOutcomeLast(outcomes, outcome) ==
    IF Truthy(outcome) THEN {outcome} ELSE outcomes

AddOutcome(outcomes, outcome) ==
    IF Truthy(outcome) THEN outcomes \cup {outcome} ELSE outcomes

\* The entry count set to one at a BUY instead of raised by one.
BuysCountedOnce(buys, type, side) == IF IsBuy(type, side) THEN 1 ELSE buys

\* "market_buys[slug] += 1", in the BUY branch
BuysCounted(buys, type, side) == IF IsBuy(type, side) THEN buys + 1 ELSE buys

PositionSlug(pos) == IF Truthy(pos.slug) THEN pos.slug ELSE pos.eventSlug

\* The held value left out of the cash flow.
PositionCashflowIgnored(cashflow, current_value) == cashflow

PositionCashflow(cashflow, current_value) == FAdd(cashflow, current_value)

\* One turn of "for item in activities".
ProcessActivity ==
    /\ pc = "analyze"
    /\ i <= Len(activities)
    /\ LET item == activities[i]
           slug == item.slug
       IN IF ~Truthy(slug)
          THEN /\ i' = i + 1
               /\ UNCHANGED <<pc, ledger>>
          ELSE IF ~Parseable(item.usdcSize)
          THEN \* float() raises; the slug was added before
               /\ pc' = "raised"
               /\ market_slugs' = market_slugs \cup {slug}
               /\ UNCHANGED <<i, market_cashflow, market_outcomes, market_buys>>
          ELSE /\ i' = i + 1
               /\ market_slugs' = market_slugs \cup {slug}
               /\ market_cashflow' =
                     [market_cashflow EXCEPT ![slug] =
                         ActivityCashflow(item.type, item.side, @,
                                          ToFloat(item.usdcSize))]
               /\ market_buys' =
                     [market_buys EXCEPT ![slug] =
                         BuysCounted(@, item.type, item.side)]
               /\ market_outcomes' =
                     [market_outcomes EXCEPT ![slug] =
                         IF IsBuy(item.type, item.side)
                         THEN AddOutcome(@, item.outcome) ELSE @]
               /\ pc' = pc
    /\ UNCHANGED <<offset, requests, activities, positions, j, todo, metrics,
                   ret, results>>
    /\ UNCHANGED batch

\* One turn of "for pos in positions".
ProcessPosition ==
    /\ pc = "analyze"
    /\ i > Len(activities)
    /\ j <= Len(positions)
    /\ LET pos == positions[j]
           slug == PositionSlug(pos)
       IN IF ~Truthy(slug)
          THEN /\ j' = j + 1
               /\ UNCHANGED <<pc, market_cashflow>>
          ELSE IF ~Parseable(pos.currentValue)
          THEN /\ pc' = "raised"
               /\ UNCHANGED <<j, market_cashflow>>
          ELSE /\ j' = j + 1
               /\ market_cashflow' =
                     [market_cashflow EXCEPT ![slug] =
                         PositionCashflow(@, ToFloat(pos.currentValue))]
               /\ pc' = pc
    /\ UNCHANGED <<offset, requests, activities, positions, i, market_outcomes,
                   market_buys, market_slugs, todo, metrics, ret, results>>
    /\ UNCHANGED batch

(***************************************************************************)
(* analyze_user: the metrics.                                              *)
(***************************************************************************)
Epsilon == FromMilli(10)

\* Classify with the comparisons taken as >= and <=.
ClassifyInclusive(pnl) ==
    IF ~FLess(pnl, Epsilon) THEN "won"
    ELSE IF ~FLess(FNeg(Epsilon), pnl) THEN "lost"
    ELSE "neutral"

Classify(pnl) ==
    IF FLess(Epsilon, pnl) THEN "won"
    ELSE IF FLess(pnl, FNeg(Epsilon)) THEN "lost"
    ELSE "neutral"

\* IsDuplicated with the test taken as "at least one BUY".
IsDuplicatedFromOne(buys) == buys >= 1

\* "if market_buys[slug] > 1"
IsDuplicated(buys) == buys > 1

\* DiffOutcome with the test taken as "some outcome seen".
DiffOutcomeFromOne(outcomes) == Cardinality(outcomes) >= 1

\* "diff_outcome = len(outcomes) > 1"
DiffOutcome(outcomes) == Cardinality(outcomes) > 1

\* The orders in which a set may be iterated.
Orderings(S) ==
    {f \in [1..Cardinality(S) -> S] : \A x \in S : \E k \in DOMAIN f : f[k] = x}

RECURSIVE Join(_, _)
Join(parts, sep) ==
    IF Len(parts) = 0 THEN <<>>
    ELSE IF Len(parts) = 1 THEN parts[1]
    ELSE parts[1] \o <<sep>> \o Join(Tail(parts), sep)

\* f"{slug}: Different outcomes ({', '.join(outcomes)})", as its pieces
DetailEntry(slug, order) ==
    <<slug, ": Different outcomes (">>
        \o Join([k \in DOMAIN order |-> <<order[k]>>], ", ") \o <<")">>

\* The loops are over: the counters start at zero.
StartMetrics ==
    /\ pc = "analyze"
    /\ i > Len(activities)
    /\ j > Len(positions)
    /\ pc' = "metrics"
    /\ todo' = market_slugs
    /\ wins' = 0
    /\ losses' = 0
    /\ total_won' = FZero
    /\ total_lost' = FZero
    /\ duplicated_bets_count' = 0
    /\ duplicated_diff_outcome' = 0
    /\ duplicated_details' = <<>>
    /\ UNCHANGED <<offset, requests, activities, positions, i, j, ledger, ret,
                   results>>
    /\ UNCHANGED batch

\* One turn of "for slug in market_slugs"; a set is iterated in any order.
MetricsStep ==
    /\ pc = "metrics"
    /\ \E slug \in todo :
          LET pnl == market_cashflow[slug]
              class == Classify(pnl)
          IN /\ todo' = todo \ {slug}
             /\ wins' = IF class = "won" THEN wins + 1 ELSE wins
             /\ total_won' =
                   IF class = "won" THEN FAdd(total_won, pnl) ELSE total_won
             /\ losses' = IF class = "lost" THEN losses + 1 ELSE losses
             /\ total_lost' =
                   IF class = "lost" THEN FAdd(total_lost, FAbs(pnl))
                   ELSE total_lost
             /\ IF IsDuplicated(market_buys[slug])
                THEN /\ duplicated_bets_count' = duplicated_bets_count + 1
                     /\ IF DiffOutcome(market_outcomes[slug])
                        THEN /\ duplicated_diff_outcome' =
                                    duplicated_diff_outcome + 1
                             /\ \E order \in Orderings(market_outcomes[slug]) :
                                   duplicated_details' =
                                       Append(duplicated_details,
                                              DetailEntry(slug, order))
                        ELSE UNCHANGED <<duplicated_diff_outcome,
                                         duplicated_details>>
                ELSE UNCHANGED <<duplicated_bets_count,
                                 duplicated_diff_outcome, duplicated_details>>
    /\ UNCHANGED <<pc, offset, requests, activities, positions, i, j, ledger,
                   ret, results>>
    /\ UNCHANGED batch

\* Summary with the counts of wins and losses exchanged.
SummarySwapped ==
    [Name |-> User.Name, Wallet |-> User.Wallet, ProfileURL |-> User.ProfileURL,
     Wins |-> losses, Losses |-> wins,
     TotalWon |-> Round2(total_won), TotalLost |-> Round2(total_lost),
     DuplicatedBets |-> duplicated_bets_count,
     DiffOutcomeCount |-> duplicated_diff_outcome,
     DiffOutcomeDetails |-> Join(duplicated_details, "; ")]

Summary ==
    [Name |-> User.Name, Wallet |-> User.Wallet, ProfileURL |-> User.ProfileURL,
     Wins |-> wins, Losses |-> losses,
     TotalWon |-> Round2(total_won), TotalLost |-> Round2(total_lost),
     DuplicatedBets |-> duplicated_bets_count,
     DiffOutcomeCount |-> duplicated_diff_outcome,
     DiffOutcomeDetails |-> Join(duplicated_details, "; ")]

Return ==
    /\ pc = "metrics"
    /\ todo = {}
    /\ pc' = "returned"
    /\ ret' = <<Summary>>
    /\ UNCHANGED <<offset, requests, activities, positions, i, j, ledger, todo,
                   metrics, results>>
    /\ UNCHANGED batch

(***************************************************************************)
(* run: the user's future is collected.                                    *)
(***************************************************************************)
Collect ==
    /\ pc \in {"returned", "raised"}
    /\ pc' = IF pc = "returned" THEN "collected" ELSE "failed"
    /\ results' = IF pc = "returned" THEN Append(results, ret[1]) ELSE results
    /\ UNCHANGED <<offset, requests, activities, positions, i, j, ledger, todo,
                   metrics, ret>>
    /\ UNCHANGED batch

InitAnalysis ==
    /\ i = 1
    /\ j = 1
    /\ market_cashflow = [s \in MarketKeys |-> FZero]
    /\ market_outcomes = [s \in MarketKeys |-> {}]
    /\ market_buys = [s \in MarketKeys |-> 0]
    /\ market_slugs = {}
    /\ todo = {}
    /\ wins = 0
    /\ losses = 0
    /\ total_won = FZero
    /\ total_lost = FZero
    /\ duplicated_bets_count = 0
    /\ duplicated_diff_outcome = 0
    /\ duplicated_details = <<>>
    /\ ret = <<>>
    /\ results = <<>>

\* No pool of fetch loops and no page being scrolled.
InitIdle ==
    /\ tasks = <<>>
    /\ page = <<>>
    /\ view = [lo |-> 1, hi |-> 0]
    /\ last_height = 0
    /\ scroll_attempts = 0
    /\ bet_limit = NoLimit

\* Nothing of run, of main or of the text path has happened.
InitBatch ==
    /\ InitIdle
    /\ csv = [state |-> "ok", rows |-> <<>>]
    /\ user_limit = NoLimit
    /\ df = <<>>
    /\ future_to_user = <<>>
    /\ output = NoFile
    /\ count = 0
    /\ first_write = TRUE
    /\ all_stats = <<>>
    /\ unique_bets_data = <<>>
    /\ bet_history = <<>>

\* analyze_user from the point where both fetches have returned.
Init ==
    /\ pc = "analyze"
    /\ offset = 0
    /\ requests = <<>>
    /\ activities \in SeqsUpTo(ActivityRecords, MaxRecords)
    /\ positions \in SeqsUpTo(PositionRecords, MaxRecords - Len(activities))
    /\ InitAnalysis
    /\ InitBatch

InitCents ==
    /\ pc = "analyze"
    /\ offset = 0
    /\ requests = <<>>
    /\ activities \in SeqsUpTo(CentsActivityRecords, MaxRecords)
    /\ positions \in SeqsUpTo(CentsPositionRecords, MaxRecords - Len(activities))
    /\ InitAnalysis
    /\ InitBatch

Next ==
    \/ ProcessActivity
    \/ ProcessPosition
    \/ StartMetrics
    \/ MetricsStep
    \/ Return
    \/ Collect

Spec == Init /\ [][Next]_vars

SpecCents == InitCents /\ [][Next]_vars

InitOrder ==
    /\ pc = "analyze"
    /\ offset = 0
    /\ requests = <<>>
    /\ activities \in SeqsUpTo(OrderActivityRecords, MaxRecords)
    /\ positions \in SeqsUpTo(OrderPositionRecords, MaxRecords - Len(activities))
    /\ InitAnalysis
    /\ InitBatch

SpecOrder == InitOrder /\ [][Next]_vars

(***************************************************************************)
(* fetch_user_activity and fetch_user_positions.  The user's data on the   *)
(* server is a list of records, the record at place p being p; a page      *)
(* request is answered 429, with an error (an HTTP error status or an      *)
(* exception of the session), or 200 with the records from its offset on.  *)
(***************************************************************************)
limit == 100

PageSizes == {0, 40, limit}

Responses ==
    {[status |-> 429, size |-> 0], [status |-> 500, size |-> 0]}
        \cup {[status |-> 200, size |-> n] : n \in PageSizes}

\* resp.json() of a page of n records asked for at offset
Page(off, n) == [k \in 1..n |-> off + k]

RequestsOf(endpoint) == SelectSeq(requests, LAMBDA r : r.endpoint = endpoint)

\* The answer 429 not told from the other answers.
IsRateLimitedNever(status) == FALSE

\* "if resp.status_code == 429: ... continue"
IsRateLimited(status) == status = 429

\* what raise_for_status() and the except clause make end the loop
IsError(status) == status # 200 /\ status # 429

\* IsLastPage with the short page not seen as the last.
IsLastPageNever(n) == FALSE

\* "if len(data) < limit: break"
IsLastPage(n) == n < limit

\* NextOffset with the offset moved on by an answer 429 too.
NextOffsetSkipping(status, n, off) ==
    IF IsError(status) \/ (~IsRateLimited(status) /\ (n = 0 \/ IsLastPage(n)))
    THEN off
    ELSE off + limit

\* The offset of the loop's next request.
NextOffset(status, n, off) ==
    IF IsRateLimited(status) THEN off
    ELSE IF IsError(status) \/ n = 0 \/ IsLastPage(n) THEN off
    ELSE off + limit

\* Continues with an error answer taken as a 429: the page is asked again.
ContinuesOnError(status, n) ==
    IsRateLimited(status) \/ IsError(status) \/ (n # 0 /\ ~IsLastPage(n))

\* Whether the loop goes on after this answer.
Continues(status, n) ==
    IsRateLimited(status) \/ (~IsError(status) /\ n # 0 /\ ~IsLastPage(n))

\* Extended with the list emptied by an error answer.
ExtendedLostOnError(list, status, n, off) ==
    IF IsError(status) THEN <<>>
    ELSE IF IsRateLimited(status) THEN list
    ELSE list \o Page(off, n)

\* The list after this answer.
Extended(list, status, n, off) ==
    IF IsRateLimited(status) \/ IsError(status) THEN list
    ELSE list \o Page(off, n)

\* One turn of the "while True" of fetch_user_activity.
FetchActivityPage ==
    /\ pc = "fetch_activity"
    /\ Len(RequestsOf("activity")) < MaxRequests
    /\ \E resp \in Responses :
          /\ requests' = Append(requests,
                                [endpoint |-> "activity", offset |-> offset,
                                 status |-> resp.status, size |-> resp.size])
          /\ activities' = Extended(activities, resp.status, resp.size, offset)
          /\ IF Continues(resp.status, resp.size)
             THEN /\ offset' = NextOffset(resp.status, resp.size, offset)
                  /\ pc' = pc
             ELSE \* the list is returned and fetch_user_positions starts
                  /\ offset' = 0
                  /\ pc' = "fetch_positions"
    /\ UNCHANGED <<positions, analysis>>
    /\ UNCHANGED batch

\* One turn of the "while True" of fetch_user_positions.
FetchPositionsPage ==
    /\ pc = "fetch_positions"
    /\ Len(RequestsOf("positions")) < MaxRequests
    /\ \E resp \in Responses :
          /\ requests' = Append(requests,
                                [endpoint |-> "positions", offset |-> offset,
                                 status |-> resp.status, size |-> resp.size])
          /\ positions' = Extended(positions, resp.status, resp.size, offset)
          /\ IF Continues(resp.status, resp.size)
             THEN /\ offset' = NextOffset(resp.status, resp.size, offset)
                  /\ pc' = pc
             ELSE /\ offset' = offset
                  /\ pc' = "fetched"
    /\ UNCHANGED <<activities, analysis>>
    /\ UNCHANGED batch

InitFetch ==
    /\ pc = "fetch_activity"
    /\ offset = 0
    /\ requests = <<>>
    /\ activities = <<>>
    /\ positions = <<>>
    /\ InitAnalysis
    /\ InitBatch

NextFetch ==
    \/ FetchActivityPage
    \/ FetchPositionsPage

SpecFetch == InitFetch /\ [][NextFetch]_vars

(***************************************************************************)
(* The same loops with no bound on their turns, against a source that has  *)
(* MaxPages full pages at most for a user.  Of the requests only the last  *)
(* one is kept.  The loop asks again after each answer 429 (it sleeps and  *)
(* continues), so a source that stops answering 429 to a request gets the  *)
(* turn with another answer taken: weak fairness of AnsweredTurn.          *)
(***************************************************************************)
LiveResponses(off) ==
    {r \in Responses :
        (r.status = 200 /\ r.size = limit) => off < MaxPages * limit}

LiveFetchActivity(resp) ==
    /\ pc = "fetch_activity"
    /\ requests' = <<[endpoint |-> "activity", offset |-> offset,
                      status |-> resp.status, size |-> resp.size]>>
    /\ activities' = Extended(activities, resp.status, resp.size, offset)
    /\ IF Continues(resp.status, resp.size)
       THEN /\ offset' = NextOffset(resp.status, resp.size, offset)
            /\ pc' = pc
       ELSE /\ offset' = 0
            /\ pc' = "fetch_positions"
    /\ UNCHANGED <<positions, analysis>>
    /\ UNCHANGED batch

LiveFetchPositions(resp) ==
    /\ pc = "fetch_positions"
    /\ requests' = <<[endpoint |-> "positions", offset |-> offset,
                      status |-> resp.status, size |-> resp.size]>>
    /\ positions' = Extended(positions, resp.status, resp.size, offset)
    /\ IF Continues(resp.status, resp.size)
       THEN /\ offset' = NextOffset(resp.status, resp.size, offset)
            /\ pc' = pc
       ELSE /\ offset' = offset
            /\ pc' = "fetched"
    /\ UNCHANGED <<activities, analysis>>
    /\ UNCHANGED batch

\* A turn whose request is answered 429.
RetryTurn ==
    \E resp \in {r \in Responses : r.status = 429} :
       \/ LiveFetchActivity(resp)
       \/ LiveFetchPositions(resp)

\* A turn whose request is answered with a page or with an error.
AnsweredTurn ==
    \E resp \in {r \in LiveResponses(offset) : r.status # 429} :
       \/ LiveFetchActivity(resp)
       \/ LiveFetchPositions(resp)

NextLive ==
    \/ RetryTurn
    \/ AnsweredTurn

SpecLive == InitFetch /\ [][NextLive]_vars /\ WF_vars(AnsweredTurn)

(***************************************************************************)
(* analyze_user as a whole: the two fetches, then the analysis of what     *)
(* they returned.  The server holds, at each place of the user's activity  *)
(* and positions, a record.                                                *)
(***************************************************************************)
\* The activity record the server holds at place p.
ActivityAt(p) ==
    IF p % 4 = 1 THEN Activity("a", "TRADE", "BUY", Number(10000), "Yes")
    ELSE IF p % 4 = 2 THEN Activity("a", "REDEEM", None, Number(25000), None)
    ELSE IF p % 4 = 3 THEN Activity("b", "TRADE", "BUY", Number(5000), "Yes")
    ELSE Activity("a", "TRADE", "SELL", Number(12000), "Yes")

\* The position record the server holds at place p.
PositionAt(p) ==
    IF p % 2 = 1 THEN Position("a", None, Number(5000))
    ELSE Position(None, "b", Number(5000))

\* The records at the places of a list.
ActivitiesAt(places) == [k \in DOMAIN places |-> ActivityAt(places[k])]
PositionsAt(places) == [k \in DOMAIN places |-> PositionAt(places[k])]

\* Both fetches have returned: the analysis starts on their lists.
BeginAnalysis ==
    /\ pc = "fetched"
    /\ Len(requests) <= MaxUserRequests
    /\ pc' = "analyze"
    /\ activities' = ActivitiesAt(activities)
    /\ positions' = PositionsAt(positions)
    /\ UNCHANGED <<offset, requests, analysis>>
    /\ UNCHANGED batch

NextUser ==
    \/ FetchActivityPage
    \/ FetchPositionsPage
    \/ BeginAnalysis
    \/ ProcessActivity
    \/ ProcessPosition
    \/ StartMetrics
    \/ MetricsStep
    \/ Return
    \/ Collect

SpecUser == InitFetch /\ [][NextUser]_vars
(***************************************************************************)
(* PolymarketAnalyzer.run: the table is loaded, one future per user is     *)
(* submitted to a pool of max_workers threads, the futures are collected   *)
(* as they complete and the rows are saved.  A user's analysis is a task   *)
(* that starts, makes its page requests and returns its row or raises.     *)
(***************************************************************************)
max_workers == 3

\* A profile URL, as its pieces between slashes, and the NaN of a row
\* that has none.
ProfileURLOf(wallet) ==
    [str |-> TRUE,
     parts |-> <<"https:", "", "polymarket.com", "profile", wallet>>]
NaN == [str |-> FALSE]

\* The rows an input table may hold.
TableRows == {[ProfileURL |-> ProfileURLOf("0xa11ce")], [ProfileURL |-> NaN]}

\* The input table on disk.
Tables ==
    {[state |-> "ok", rows |-> rows] : rows \in SeqsUpTo(TableRows, MaxUsers)}
        \cup {[state |-> st, rows |-> <<>>] : st \in {"missing", "unreadable"}}
        \cup {[state |-> "no_column", rows |-> <<[Name |-> "alice"]>>]}

Limits == {NoLimit, Limit(1), Limit(2)}

\* "x.split('/')[-1].strip() if isinstance(x, str) else None"
WalletOf(url) == IF url.str THEN url.parts[Len(url.parts)] ELSE None

\* load_users with a table that lacks its column read as if it had it.
LoadedRowsUnchecked(table) ==
    IF table.state \in {"ok", "no_column"}
    THEN [k \in DOMAIN table.rows |-> [wallet |-> "0xa11ce"]]
    ELSE <<>>

\* load_users: the rows with their wallet, or an empty table when reading
\* the file or taking the column raises.
LoadedRows(table) ==
    IF table.state = "ok"
    THEN [k \in DOMAIN table.rows |->
             [ProfileURL |-> table.rows[k].ProfileURL,
              wallet |-> WalletOf(table.rows[k].ProfileURL)]]
    ELSE <<>>

\* The limit given but never applied.
HeadOfIgnored(rows, lim) == rows

\* "if limit: df = df.head(limit)"
HeadOf(rows, lim) ==
    IF ~lim.given \/ lim.n = 0 \/ lim.n >= Len(rows) THEN rows
    ELSE SubSeq(rows, 1, lim.n)

\* The futures in a state.
FuturesIn(states) == {k \in DOMAIN future_to_user : future_to_user[k] \in states}

\* The pool with one thread too many.
HasIdleWorkerOffByOne(busy) == busy <= max_workers

\* A thread of the pool is free to take a task.
HasIdleWorker(busy) == busy < max_workers

\* The except clause of the collecting loop left out: the error goes up.
PropagatesRaised(state) == state = "raised"

\* "except Exception as e: print(...)": an error of a task goes no further.
Propagates(state) == FALSE

\* results.append(data) writing over what was collected.
AppendedOverwriting(rows, row) == <<row>>

\* results.append(data)
Appended(rows, row) == Append(rows, row)

\* The row the analysis of the user of row k returns.
RowOf(k) == [row |-> k, Wallet |-> df[k].wallet]

run_untouched ==
    <<offset, activities, positions, j, ledger, todo, metrics, ret, count,
      first_write, all_stats, unique_bets_data, bet_history, tasks, scrape>>

\* "df = self.load_users() ... if df.empty: return ... df = df.head(limit)"
LoadUsers ==
    /\ pc = "run"
    /\ LET loaded == LoadedRows(csv)
       IN IF loaded = <<>>
          THEN /\ pc' = "no_users"
               /\ df' = loaded
          ELSE /\ pc' = "submit"
               /\ df' = HeadOf(loaded, user_limit)
    /\ i' = 1
    /\ UNCHANGED <<requests, results, csv, user_limit, future_to_user, output,
                   run_untouched>>

\* One row of the comprehension that submits the users with a wallet.
Submit ==
    /\ pc = "submit"
    /\ i <= Len(df)
    /\ future_to_user' =
          IF Truthy(df[i].wallet)
          THEN [k \in DOMAIN future_to_user \cup {i} |->
                   IF k = i THEN "pending" ELSE future_to_user[k]]
          ELSE future_to_user
    /\ i' = i + 1
    /\ pc' = IF i = Len(df) THEN "collect" ELSE pc
    /\ UNCHANGED <<requests, results, csv, user_limit, df, output,
                   run_untouched>>

\* A free thread takes a pending task: the analysis of its user starts
\* with the request of the first page of the activity.
StartTask ==
    /\ pc \in {"submit", "collect"}
    /\ HasIdleWorker(Cardinality(FuturesIn({"running"})))
    /\ \E k \in FuturesIn({"pending"}) :
          /\ future_to_user' = [future_to_user EXCEPT ![k] = "running"]
          /\ requests' = Append(requests,
                                [endpoint |-> "activity", offset |-> 0,
                                 row |-> k])
    /\ UNCHANGED <<pc, i, results, csv, user_limit, df, output, run_untouched>>

\* The analysis of a user returns its row or raises.
FinishTask ==
    /\ pc \in {"submit", "collect"}
    /\ \E k \in FuturesIn({"running"}) :
          \E outcome \in {"returned", "raised"} :
             future_to_user' = [future_to_user EXCEPT ![k] = outcome]
    /\ UNCHANGED <<pc, i, requests, results, csv, user_limit, df, output,
                   run_untouched>>

\* One turn of "for future in as_completed(future_to_user)".
CollectFuture ==
    /\ pc = "collect"
    /\ \E k \in FuturesIn({"returned", "raised"}) :
          IF future_to_user[k] = "returned"
          THEN /\ results' = Appended(results, RowOf(k))
               /\ future_to_user' = [future_to_user EXCEPT ![k] = "collected"]
               /\ pc' = pc
          ELSE /\ results' = results
               /\ future_to_user' = [future_to_user EXCEPT ![k] = "caught"]
               /\ pc' = IF Propagates(future_to_user[k]) THEN "crashed" ELSE pc
    /\ UNCHANGED <<i, requests, csv, user_limit, df, output, run_untouched>>

\* Every future was yielded: the pool is left and the rows are saved.
SaveResults ==
    /\ pc = "collect"
    /\ FuturesIn({"collected", "caught"}) = DOMAIN future_to_user
    /\ output' = File(<<"header">> \o results)
    /\ pc' = "saved"
    /\ UNCHANGED <<i, requests, results, csv, user_limit, df, future_to_user,
                   run_untouched>>

InitRun ==
    /\ pc = "run"
    /\ offset = 0
    /\ requests = <<>>
    /\ activities = <<>>
    /\ positions = <<>>
    /\ InitAnalysis
    /\ csv \in Tables
    /\ user_limit \in Limits
    /\ df = <<>>
    /\ future_to_user = <<>>
    /\ output = NoFile
    /\ count = 0
    /\ first_write = TRUE
    /\ all_stats = <<>>
    /\ unique_bets_data = <<>>
    /\ bet_history = <<>>
    /\ InitIdle

NextRun ==
    \/ LoadUsers
    \/ Submit
    \/ StartTask
    \/ FinishTask
    \/ CollectFuture
    \/ SaveResults

SpecRun == InitRun /\ [][NextRun]_vars

(***************************************************************************)
(* main of analyze_user.py: the table is read, the users are visited one   *)
(* after the other in the browser, and the row of each is written to the   *)
(* output file as soon as it is made.                                      *)
(***************************************************************************)
\* "if not profile_url or pd.isna(profile_url): continue"
HasProfileURL(row) == "ProfileURL" \in DOMAIN row /\ row.ProfileURL.str

\* "if limit and count >= limit: break"
LimitReached(lim, n) == lim.given /\ lim.n # 0 /\ n >= lim.n

\* The row made for the user of row k of the table.
UserStat(k, notes) == [row |-> k, Notes |-> notes]

\* What visiting a user's page may come to: the sort fails, the bets are
\* extracted, or the browser raises while they are.
Visits == {"navigation_error", "extracted", "raised"}

\* to_csv with mode 'w' and the header on the first write, 'a' after it.
Written(file, is_first, stat) ==
    IF is_first THEN File(<<"header", stat>>)
    ELSE File((IF file.exists THEN file.lines ELSE <<>>) \o <<stat>>)

main_untouched ==
    <<offset, activities, positions, j, ledger, todo, metrics, ret, results,
      future_to_user, unique_bets_data, bet_history, tasks, scrape>>

\* "if not os.path.exists(...): return ... df = pd.read_csv(...) except: return"
MainLoad ==
    /\ pc = "main"
    /\ IF csv.state \in {"missing", "unreadable"}
       THEN /\ pc' = "main_returned"
            /\ df' = df
       ELSE /\ pc' = "main_loop"
            /\ df' = csv.rows
    /\ i' = 1
    /\ count' = 0
    /\ first_write' = TRUE
    /\ all_stats' = <<>>
    /\ UNCHANGED <<requests, csv, user_limit, output, main_untouched>>

\* One turn of "for index, row in df.iterrows()".
MainUser ==
    /\ pc = "main_loop"
    /\ i <= Len(df)
    /\ ~LimitReached(user_limit, count)
    /\ IF ~HasProfileURL(df[i])
       THEN /\ i' = i + 1
            /\ UNCHANGED <<pc, requests, count, first_write, all_stats, output>>
       ELSE /\ requests' = Append(requests, [endpoint |-> "profile", row |-> i])
            /\ \E visit \in Visits :
                  IF visit = "raised"
                  THEN \* the error leaves main through "finally: driver.quit()"
                       /\ pc' = "main_crashed"
                       /\ UNCHANGED <<i, count, first_write, all_stats, output>>
                  ELSE LET user_stat ==
                               UserStat(i, IF visit = "extracted" THEN ""
                                           ELSE "Navigation/Sort Error")
                       IN /\ all_stats' = Append(all_stats, user_stat)
                          /\ \E saved \in BOOLEAN :
                                IF saved
                                THEN /\ output' =
                                          Written(output, first_write, user_stat)
                                     /\ first_write' = FALSE
                                ELSE \* to_csv raises: the error is printed
                                     UNCHANGED <<output, first_write>>
                          /\ count' = count + 1
                          /\ i' = i + 1
                          /\ pc' = pc
    /\ UNCHANGED <<csv, user_limit, df, main_untouched>>

\* The loop is over: "Analysis complete", and the browser is closed.
MainEnd ==
    /\ pc = "main_loop"
    /\ i > Len(df) \/ LimitReached(user_limit, count)
    /\ pc' = "main_done"
    /\ UNCHANGED <<i, requests, csv, user_limit, df, output, count, first_write,
                   all_stats, main_untouched>>

\* An output file of an earlier run may be there.
OldFile == File(<<"header", UserStat(0, "")>>)

InitMain ==
    /\ pc = "main"
    /\ offset = 0
    /\ requests = <<>>
    /\ activities = <<>>
    /\ positions = <<>>
    /\ InitAnalysis
    /\ csv \in Tables
    /\ user_limit \in Limits
    /\ df = <<>>
    /\ future_to_user = <<>>
    /\ output \in {NoFile, OldFile}
    /\ count = 0
    /\ first_write = TRUE
    /\ all_stats = <<>>
    /\ unique_bets_data = <<>>
    /\ bet_history = <<>>
    /\ InitIdle

NextMain ==
    \/ MainLoad
    \/ MainUser
    \/ MainEnd

SpecMain == InitMain /\ [][NextMain]_vars

\* Either program, from its start.
InitBatchRun == InitRun \/ InitMain

NextBatchRun ==
    \/ LoadUsers
    \/ Submit
    \/ StartTask
    \/ FinishTask
    \/ CollectFuture
    \/ SaveResults
    \/ MainLoad
    \/ MainUser
    \/ MainEnd

SpecBatchRun == InitBatchRun /\ [][NextBatchRun]_vars

(***************************************************************************)
(* The fetch loops of the users whose tasks run at the same time in the    *)
(* pool (fewer than max_workers of them): each task has its own offset and *)
(* its own lists, and a turn of a loop of one task is one step.            *)
(***************************************************************************)
PoolUsers == {1, 2}

Task(state, off, reqs, acts, poss) ==
    [pc |-> state, offset |-> off, requests |-> reqs, activities |-> acts,
     positions |-> poss]

pool_untouched ==
    <<pc, offset, requests, activities, positions, analysis, csv, user_limit,
      df, future_to_user, output, count, first_write, all_stats,
      unique_bets_data, bet_history, scrape>>

\* One turn of the "while True" of fetch_user_activity, in the task of u.
TaskFetchActivity(u) ==
    /\ pc = "pool"
    /\ tasks[u].pc = "fetch_activity"
    /\ Len(tasks[u].requests) < MaxTaskRequests
    /\ \E resp \in Responses :
          LET t == tasks[u]
              goes_on == Continues(resp.status, resp.size)
          IN tasks' =
                [tasks EXCEPT ![u] =
                    Task(IF goes_on THEN t.pc ELSE "fetch_positions",
                         IF goes_on
                         THEN NextOffset(resp.status, resp.size, t.offset)
                         ELSE 0,
                         Append(t.requests,
                                [endpoint |-> "activity", offset |-> t.offset,
                                 status |-> resp.status, size |-> resp.size]),
                         Extended(t.activities, resp.status, resp.size,
                                  t.offset),
                         t.positions)]
    /\ UNCHANGED pool_untouched

\* One turn of the "while True" of fetch_user_positions, in the task of u.
TaskFetchPositions(u) ==
    /\ pc = "pool"
    /\ tasks[u].pc = "fetch_positions"
    /\ Len(tasks[u].requests) < MaxTaskRequests
    /\ \E resp \in Responses :
          LET t == tasks[u]
              goes_on == Continues(resp.status, resp.size)
          IN tasks' =
                [tasks EXCEPT ![u] =
                    Task(IF goes_on THEN t.pc ELSE "fetched",
                         IF goes_on
                         THEN NextOffset(resp.status, resp.size, t.offset)
                         ELSE t.offset,
                         Append(t.requests,
                                [endpoint |-> "positions", offset |-> t.offset,
                                 status |-> resp.status, size |-> resp.size]),
                         t.activities,
                         Extended(t.positions, resp.status, resp.size,
                                  t.offset))]
    /\ UNCHANGED pool_untouched

InitPool ==
    /\ pc = "pool"
    /\ offset = 0
    /\ requests = <<>>
    /\ activities = <<>>
    /\ positions = <<>>
    /\ InitAnalysis
    /\ csv = [state |-> "ok", rows |-> <<>>]
    /\ user_limit = NoLimit
    /\ df = <<>>
    /\ future_to_user = <<>>
    /\ output = NoFile
    /\ count = 0
    /\ first_write = TRUE
    /\ all_stats = <<>>
    /\ unique_bets_data = <<>>
    /\ bet_history = <<>>
    /\ tasks = [u \in PoolUsers |-> Task("fetch_activity", 0, <<>>, <<>>, <<>>)]
    /\ page = <<>>
    /\ view = [lo |-> 1, hi |-> 0]
    /\ last_height = 0
    /\ scroll_attempts = 0
    /\ bet_limit = NoLimit

NextPool ==
    \E u \in PoolUsers :
       \/ TaskFetchActivity(u)
       \/ TaskFetchPositions(u)

SpecPool == InitPool /\ [][NextPool]_vars

(***************************************************************************)
(* extract_and_analyze_bets of analyze_user.py, from the rows of text it   *)
(* has found.  The text of a row is its title line and the words that      *)
(* follow, a word made of digits, dots and commas being kept by its        *)
(* characters.                                                             *)
(***************************************************************************)
Word(text) == [kind |-> "word", text |-> text]
Amount(chars) == [kind |-> "amount", chars |-> chars]
TextRow(title, words) == [title |-> title, words |-> words]

\* " ".join(lines), as words
FullText(item) == <<Word(item.title)>> \o item.words

\* "'Won' in full_text"
Contains(words, text) == \E k \in DOMAIN words : words[k] = Word(text)

\* amount_str.replace(',', '')
StripCommas(chars) == SelectSeq(chars, LAMBDA c : c # ",")

DigitValue ==
    [c \in {"0", "1", "2", "3", "4", "5", "6", "7", "8", "9"} |->
        CASE c = "0" -> 0 [] c = "1" -> 1 [] c = "2" -> 2 [] c = "3" -> 3
          [] c = "4" -> 4 [] c = "5" -> 5 [] c = "6" -> 6 [] c = "7" -> 7
          [] c = "8" -> 8 [] c = "9" -> 9]

\* float(amount_str) raises unless the text has a digit and one dot at most
FloatParses(chars) ==
    /\ \E k \in DOMAIN chars : chars[k] \in DOMAIN DigitValue
    /\ \A k \in DOMAIN chars : chars[k] \in DOMAIN DigitValue \cup {"."}
    /\ Cardinality({k \in DOMAIN chars : chars[k] = "."}) <= 1

\* The value of a text of digits with at most three after the dot, in
\* thousandths.
RECURSIVE MilliOfChars(_, _, _)
MilliOfChars(chars, acc, scale) ==
    IF chars = <<>> THEN (IF scale = 0 THEN acc * 1000 ELSE acc)
    ELSE IF Head(chars) = "." THEN MilliOfChars(Tail(chars), acc * 1000, 1000)
    ELSE IF scale = 0
         THEN MilliOfChars(Tail(chars), acc * 10 + DigitValue[Head(chars)], 0)
    ELSE MilliOfChars(Tail(chars),
                      acc + DigitValue[Head(chars)] * (scale \div 10),
                      scale \div 10)

\* float(amount_str)
FloatOfChars(chars) == FromMilli(MilliOfChars(chars, 0, 0))

\* Where re.search(r'(Won|Lost)\s+([\d\.,]+)\s+(.*?)\s+at', full_text)
\* can start, and where the lazy group then ends.
MatchStarts(words) ==
    {p \in DOMAIN words :
        /\ words[p] \in {Word("Won"), Word("Lost")}
        /\ p + 3 <= Len(words)
        /\ words[p + 1].kind = "amount"
        /\ \E q \in (p + 3)..Len(words) : words[q] = Word("at")}

Least(S) == CHOOSE x \in S : \A y \in S : x <= y

NoMatch == [found |-> FALSE]

\* re.search: the leftmost match, its amount and its outcome label.
RegexSearch(words) ==
    IF MatchStarts(words) = {} THEN NoMatch
    ELSE LET p == Least(MatchStarts(words))
             q == Least({n \in (p + 3)..Len(words) : words[n] = Word("at")})
         IN [found |-> TRUE,
             amount |-> words[p + 1].chars,
             outcome |-> SubSeq(words, p + 2, q - 1)]

Unknown == <<Word("Unknown")>>

\* The rows of text a profile page may show.
TextRows ==
    { TextRow("M1", <<Word("Won"), Amount(<<"1", "0">>), Word("Yes"),
                      Word("at"), Word("45c")>>),
      TextRow("M1", <<Word("Lost"), Amount(<<"5">>), Word("No"),
                      Word("at"), Word("40c")>>),
      TextRow("M1", <<Word("Won"), Amount(<<"1", ",", "0", "0", "0">>),
                      Word("Yes"), Word("at"), Word("45c")>>),
      TextRow("M2", <<Word("Won"), Amount(<<"2", ".", "5">>), Word("Over"),
                      Word("2"), Word("at"), Word("45c")>>),
      TextRow("M1", <<Word("Won"), Amount(<<"1", ".", "2", ".", "3">>),
                      Word("Yes"), Word("at"), Word("45c")>>),
      TextRow("M1", <<Word("Won")>>),
      TextRow("M1", <<Word("Lost"), Amount(<<"5">>), Word("No")>>),
      TextRow("M2", <<Word("Pending"), Amount(<<"3">>), Word("Yes"),
                      Word("at"), Word("10c")>>) }

Titles == {"M1", "M2"}

text_untouched ==
    <<offset, requests, activities, positions, j, market_cashflow, market_buys,
      market_slugs, todo, duplicated_bets_count, duplicated_diff_outcome,
      duplicated_details, results, csv, user_limit, df, future_to_user, output,
      count, first_write, all_stats, tasks, scrape>>

\* bet_history[key].append(...), the list made when the key is new
AddBet(history, key, bet) ==
    [k \in DOMAIN history \cup {key} |->
        IF k = key
        THEN (IF key \in DOMAIN history THEN history[key] ELSE <<>>) \o <<bet>>
        ELSE history[k]]

\* One turn of "for item in unique_bets_data".
ProcessRow ==
    /\ pc = "text"
    /\ i <= Len(unique_bets_data)
    /\ LET item == unique_bets_data[i]
           title == item.title
           full_text == FullText(item)
           won == Contains(full_text, "Won")
           lost == ~won /\ Contains(full_text, "Lost")
           match == RegexSearch(full_text)
           amount_str == IF match.found THEN StripCommas(match.amount)
                         ELSE <<"0">>
           outcome == IF match.found THEN match.outcome ELSE Unknown
           adds == match.found /\ FloatParses(amount_str)
           key == <<title, outcome>>
       IN IF ~won /\ ~lost
          THEN UNCHANGED <<wins, losses, total_won, total_lost, bet_history,
                           market_outcomes>>
          ELSE /\ wins' = IF won THEN wins + 1 ELSE wins
               /\ losses' = IF lost THEN losses + 1 ELSE losses
               /\ total_won' =
                     IF won /\ adds
                     THEN FAdd(total_won, FloatOfChars(amount_str))
                     ELSE total_won
               /\ total_lost' =
                     IF lost /\ adds
                     THEN FAdd(total_lost, FloatOfChars(amount_str))
                     ELSE total_lost
               /\ bet_history' =
                     AddBet(bet_history, key,
                            [title |-> title, outcome |-> outcome,
                             status |-> IF won THEN "Won" ELSE "Lost",
                             amount |-> amount_str])
               /\ market_outcomes' =
                     [market_outcomes EXCEPT ![title] = @ \cup {outcome}]
    /\ i' = i + 1
    /\ UNCHANGED <<pc, ret, unique_bets_data, text_untouched>>

\* "Analyze duplicates", "Check for Hedging" and the dict returned.
ReturnBets ==
    /\ pc = "text"
    /\ i > Len(unique_bets_data)
    /\ pc' = "text_returned"
    /\ ret' = <<[wins |-> wins, losses |-> losses,
                 total_won |-> total_won, total_lost |-> total_lost,
                 duplicates |->
                     {[title |-> key[1], outcome |-> key[2],
                       count |-> Len(bet_history[key])] :
                         key \in {k \in DOMAIN bet_history :
                                     Len(bet_history[k]) > 1}},
                 hedged_markets |->
                     {[title |-> t, outcomes |-> market_outcomes[t]] :
                         t \in {m \in Titles :
                                   Cardinality(market_outcomes[m]) > 1}}]>>
    /\ UNCHANGED <<i, wins, losses, total_won, total_lost, market_outcomes,
                   unique_bets_data, bet_history, text_untouched>>

InitText ==
    /\ pc = "text"
    /\ offset = 0
    /\ requests = <<>>
    /\ activities = <<>>
    /\ positions = <<>>
    /\ i = 1
    /\ j = 1
    /\ market_cashflow = [s \in MarketKeys |-> FZero]
    /\ market_outcomes = [t \in Titles |-> {}]
    /\ market_buys = [s \in MarketKeys |-> 0]
    /\ market_slugs = {}
    /\ todo = {}
    /\ wins = 0
    /\ losses = 0
    /\ total_won = FZero
    /\ total_lost = FZero
    /\ duplicated_bets_count = 0
    /\ duplicated_diff_outcome = 0
    /\ duplicated_details = <<>>
    /\ ret = <<>>
    /\ results = <<>>
    /\ csv = [state |-> "ok", rows |-> <<>>]
    /\ user_limit = NoLimit
    /\ df = <<>>
    /\ future_to_user = <<>>
    /\ output = NoFile
    /\ count = 0
    /\ first_write = TRUE
    /\ all_stats = <<>>
    /\ unique_bets_data \in SeqsUpTo(TextRows, MaxRows)
    /\ bet_history = <<>>
    /\ InitIdle

\* f"{dup['title']}/{dup['outcome']} (x{dup['count']})" and
\* f"HEDGED: {h['title']} ({', '.join(h['outcomes'])})", as what they name
DuplicateNote(dup) ==
    [kind |-> "DUPLICATE", title |-> dup.title, outcome |-> dup.outcome,
     count |-> dup.count]
HedgedNote(h) == [kind |-> "HEDGED", title |-> h.title, outcomes |-> h.outcomes]

\* user_stat of main once the results of the user's page are in: the
\* notes as the set of their entries, the win rate as the two counts it
\* is the quotient of.
StatOf(res) ==
    [Wins |-> res.wins,
     Losses |-> res.losses,
     TotalWon |-> res.total_won,
     TotalLost |-> res.total_lost,
     WinRate |-> IF res.wins + res.losses > 0
                 THEN <<res.wins, res.wins + res.losses>> ELSE <<0, 1>>,
     DuplicateBets |-> Cardinality(res.duplicates),
     HedgedBets |-> IF res.duplicates # {}
                    THEN Cardinality(res.hedged_markets) ELSE 0,
     Notes |-> IF res.duplicates # {}
               THEN {DuplicateNote(dup) : dup \in res.duplicates}
                       \cup {HedgedNote(h) : h \in res.hedged_markets}
               ELSE {}]

\* main: "results = extract_and_analyze_bets(...)", user_stat filled from
\* them and appended to all_stats.
FillUserStat ==
    /\ pc = "text_returned"
    /\ pc' = "stat_filled"
    /\ all_stats' = Append(all_stats, StatOf(ret[1]))
    /\ UNCHANGED <<i, wins, losses, total_won, total_lost, market_outcomes,
                   unique_bets_data, bet_history, ret>>
    /\ UNCHANGED <<offset, requests, activities, positions, j, market_cashflow,
                   market_buys, market_slugs, todo, duplicated_bets_count,
                   duplicated_diff_outcome, duplicated_details, results, csv,
                   user_limit, df, future_to_user, output, count, first_write,
                   tasks, scrape>>

NextText ==
    \/ ProcessRow
    \/ ReturnBets
    \/ FillUserStat

SpecText == InitText /\ [][NextText]_vars

(***************************************************************************)
(* extract_and_analyze_bets, the scroll loop.  The profile page is a list  *)
(* of rows of bets, of which the rows view.lo..view.hi are rendered; a     *)
(* scroll may load rows below and may unload rows above, and never skips a *)
(* row that was not rendered yet.  The height of the document grows with   *)
(* the rows loaded.                                                        *)
(***************************************************************************)
max_scroll_attempts == 3

ScrapedRow(title, words, href) ==
    [title |-> title, words |-> words, href |-> href]

PageRows ==
    { ScrapedRow("M1", <<Word("Won"), Amount(<<"1", "0">>), Word("Yes"),
                         Word("at"), Word("45c")>>, "/event/m1"),
      ScrapedRow("M1", <<Word("Lost"), Amount(<<"5">>), Word("No"),
                         Word("at"), Word("40c")>>, "/event/m1"),
      ScrapedRow("M2", <<Word("Won"), Amount(<<"2", ".", "5">>), Word("Over"),
                         Word("2"), Word("at"), Word("45c")>>, "/event/m2") }

BetLimits == {NoLimit, Limit(1), Limit(2)}

\* "item['text'] == last_item['text'] and item['href'] == last_item['href']"
SameItem(a, b) == a.title = b.title /\ a.words = b.words /\ a.href = b.href

\* The rows found by find_elements, sorted by their place on the page.
Batch(rows, v) == SubSeq(rows, v.lo, v.hi)

\* document.body.scrollHeight
Height(v) == v.hi

\* "check_len = min(len(unique_bets_data), 3)"
CheckLen(collected) == IF Len(collected) < 3 THEN Len(collected) ELSE 3

\* The body of "for i, item in enumerate(current_batch_data)": the item at
\* place p is the last collected item and the items before it are the
\* collected items before that one, as far as the signature and the batch
\* reach.
MatchesAt(collected, current, p) ==
    /\ SameItem(current[p], collected[Len(collected)])
    /\ \A k \in 1..(CheckLen(collected) - 1) :
          p - k >= 1 =>
             SameItem(current[p - k], collected[Len(collected) - k])

\* match_index, the last place that matches; 0 where the code has -1
MatchIndex(collected, current) ==
    LET places == {p \in DOMAIN current : MatchesAt(collected, current, p)}
    IN IF places = {} THEN 0
       ELSE CHOOSE p \in places : \A q \in places : q <= p

\* new_items
NewItems(collected, current) ==
    IF collected = <<>> THEN current
    ELSE IF MatchIndex(collected, current) # 0
         THEN SubSeq(current, MatchIndex(collected, current) + 1, Len(current))
    ELSE current

\* "if bet_limit and len(unique_bets_data) >= bet_limit: break"
BetLimitReached(lim, collected) ==
    lim.given /\ lim.n # 0 /\ Len(collected) >= lim.n

\* What is rendered after window.scrollTo(0, document.body.scrollHeight).
ViewsAfter(v) ==
    {[lo |-> lo, hi |-> hi] : lo \in v.lo..(v.hi + 1), hi \in v.hi..Len(page)}

\* One turn of the "while True" of the scroll loop.
ScrollTurn ==
    /\ pc = "scroll"
    /\ LET collected ==
              unique_bets_data
                  \o NewItems(unique_bets_data, Batch(page, view))
       IN /\ unique_bets_data' = collected
          /\ IF BetLimitReached(bet_limit, collected)
             THEN /\ pc' = "text"
                  /\ UNCHANGED <<view, last_height, scroll_attempts>>
             ELSE \E v \in ViewsAfter(view) :
                     /\ view' = v
                     /\ IF Height(v) = last_height
                        THEN /\ scroll_attempts' = scroll_attempts + 1
                             /\ last_height' = last_height
                             /\ pc' = IF scroll_attempts + 1
                                           >= max_scroll_attempts
                                      THEN "text" ELSE pc
                        ELSE /\ last_height' = Height(v)
                             /\ scroll_attempts' = 0
                             /\ pc' = pc
    /\ UNCHANGED <<offset, requests, activities, positions, analysis, csv,
                   user_limit, df, future_to_user, output, count, first_write,
                   all_stats, bet_history, tasks, page, bet_limit>>

InitScroll ==
    /\ pc = "scroll"
    /\ offset = 0
    /\ requests = <<>>
    /\ activities = <<>>
    /\ positions = <<>>
    /\ i = 1
    /\ j = 1
    /\ market_cashflow = [s \in MarketKeys |-> FZero]
    /\ market_outcomes = [t \in Titles |-> {}]
    /\ market_buys = [s \in MarketKeys |-> 0]
    /\ market_slugs = {}
    /\ todo = {}
    /\ wins = 0
    /\ losses = 0
    /\ total_won = FZero
    /\ total_lost = FZero
    /\ duplicated_bets_count = 0
    /\ duplicated_diff_outcome = 0
    /\ duplicated_details = <<>>
    /\ ret = <<>>
    /\ results = <<>>
    /\ csv = [state |-> "ok", rows |-> <<>>]
    /\ user_limit = NoLimit
    /\ df = <<>>
    /\ future_to_user = <<>>
    /\ output = NoFile
    /\ count = 0
    /\ first_write = TRUE
    /\ all_stats = <<>>
    /\ unique_bets_data = <<>>
    /\ bet_history = <<>>
    /\ tasks = <<>>
    /\ page \in SeqsUpTo(PageRows, MaxPageRows) \ {<<>>}
    /\ view \in {[lo |-> 1, hi |-> hi] : hi \in 1..Len(page)}
    /\ last_height = Height(view)
    /\ scroll_attempts = 0
    /\ bet_limit \in BetLimits

NextScroll ==
    \/ ScrollTurn
    \/ ProcessRow
    \/ ReturnBets

SpecScroll == InitScroll /\ [][NextScroll]_vars

(***************************************************************************)
(* What the claims speak of, read off the records themselves.              *)
(***************************************************************************)
\* The signed amount of an activity record for market s: BUY is cash out,
\* SELL, REDEEM and MERGE are cash in, anything else is no event.
SignedAmount(item, s) ==
    IF item.slug # s \/ ~Parseable(item.usdcSize) THEN FZero
    ELSE IF item.type = "TRADE" /\ item.side = "BUY"
         THEN FNeg(ToFloat(item.usdcSize))
    ELSE IF (item.type = "TRADE" /\ item.side = "SELL")
              \/ item.type \in {"REDEEM", "MERGE"}
         THEN ToFloat(item.usdcSize)
    ELSE FZero

\* The amount a position record holds for market s.
HeldAmount(pos, s) ==
    IF (IF pos.slug \in {None, ""} THEN pos.eventSlug ELSE pos.slug) # s
         \/ ~Parseable(pos.currentValue)
    THEN FZero ELSE ToFloat(pos.currentValue)

\* The same amounts as whole thousandths of a dollar.
SignedMilli(item, s) ==
    IF SignedAmount(item, s) = FZero THEN 0
    ELSE IF item.side = "BUY" THEN 0 - item.usdcSize.milli
    ELSE item.usdcSize.milli

HeldMilli(pos, s) ==
    IF HeldAmount(pos, s) = FZero THEN 0 ELSE pos.currentValue.milli

\* The sums of the first n activity records and the first m position
\* records of market s: exact, in floats in processing order, and in
\* thousandths.
RECURSIVE ExactNet(_, _, _)
ExactNet(s, n, m) ==
    IF m > 0 THEN ExactAdd(ExactNet(s, n, m - 1), HeldAmount(positions[m], s))
    ELSE IF n > 0
         THEN ExactAdd(ExactNet(s, n - 1, 0), SignedAmount(activities[n], s))
    ELSE FZero

RECURSIVE FloatNet(_, _, _)
FloatNet(s, n, m) ==
    IF m > 0 THEN FAdd(FloatNet(s, n, m - 1), HeldAmount(positions[m], s))
    ELSE IF n > 0
         THEN FAdd(FloatNet(s, n - 1, 0), SignedAmount(activities[n], s))
    ELSE FZero

RECURSIVE MilliNet(_, _, _)
MilliNet(s, n, m) ==
    IF m > 0 THEN MilliNet(s, n, m - 1) + HeldMilli(positions[m], s)
    ELSE IF n > 0 THEN MilliNet(s, n - 1, 0) + SignedMilli(activities[n], s)
    ELSE 0

FromSignedMilli(n) == IF n < 0 THEN FNeg(FromMilli(0 - n)) ELSE FromMilli(n)

\* Every amount applied so far to market s is a whole number of dollars.
WholeDollars(s, n, m) ==
    /\ \A k \in 1..n : SignedMilli(activities[k], s) % 1000 = 0
    /\ \A k \in 1..m : HeldMilli(positions[k], s) % 1000 = 0

\* How many records the two loops have applied.
Applied == <<i - 1, j - 1>>

(***************************************************************************)
(* C1.  As stated: at every point of the analysis the net cash flow of     *)
(* each market is the exact sum of the signed amounts of the records       *)
(* applied to it (so the same for every order of the records).             *)
(***************************************************************************)
C1_ExactSum ==
    \A s \in MarketKeys :
        market_cashflow[s] = ExactNet(s, Applied[1], Applied[2])

(***************************************************************************)
(* C1, amended.  The net cash flow of each market is the sum of the signed *)
(* amounts accumulated in processing order (activity records, then         *)
(* position records) in double arithmetic, each addition rounded; when     *)
(* every amount is a whole number of dollars it is the exact sum, whatever *)
(* the order of the records.                                               *)
(***************************************************************************)
C1_FloatSum ==
    \A s \in MarketKeys :
        /\ market_cashflow[s] = FloatNet(s, Applied[1], Applied[2])
        /\ WholeDollars(s, Applied[1], Applied[2])
              => market_cashflow[s]
                    = FromSignedMilli(MilliNet(s, Applied[1], Applied[2]))

\* A BUY, a settlement and a holding of whole dollars have been applied to
\* market a in some order of the activity records: net 25 - 10 + 5.
C1_Witness ==
    /\ pc = "metrics"
    /\ Len(activities) = 2
    /\ activities[1].type = "REDEEM"
    /\ activities[2].side = "BUY"
    /\ Len(positions) = 1
    /\ WholeDollars("a", 2, 1)
    /\ MilliNet("a", 2, 1) = 20000
    /\ market_cashflow["a"] = FromMilli(20000)
(***************************************************************************)
(* One turn of the metrics loop, and the market it visits.                 *)
(***************************************************************************)
MetricsTurn == pc = "metrics" /\ pc' = "metrics" /\ todo' # todo

VisitedSlug == CHOOSE s \in todo : s \notin todo'

\* The BUY records of market s, and the labels they carry.
BuysOf(s) ==
    {k \in DOMAIN activities :
        /\ activities[k].slug = s
        /\ activities[k].type = "TRADE"
        /\ activities[k].side = "BUY"}

LabelsOf(s) == {activities[k].outcome : k \in BuysOf(s)} \ {None, ""}

AllLabelled(s) == \A k \in BuysOf(s) : activities[k].outcome \notin {None, ""}

\* The slug and the labels a detail entry names.
EntrySlug(entry) == entry[1]
EntryLabelPlaces(entry) == {k \in 3..(Len(entry) - 1) : k % 2 = 1}
EntryLabels(entry) == {entry[k] : k \in EntryLabelPlaces(entry)}

Cent == FromMilli(10)

(***************************************************************************)
(* C2.  The dead zone includes its boundary: a visited market whose net    *)
(* cash flow lies in [-0.01, +0.01], the ends included, changes neither    *)
(* the counts nor the totals; a net above 0.01 counts one win and is added *)
(* to total_won; a net below -0.01 counts one loss and its absolute value  *)
(* is added to total_lost.                                                 *)
(***************************************************************************)
C2_DeadZone ==
    [][MetricsTurn =>
        LET pnl == market_cashflow[VisitedSlug] IN
        /\ (pnl = Cent \/ pnl = FNeg(Cent)
              \/ (FLess(FNeg(Cent), pnl) /\ FLess(pnl, Cent)))
              => UNCHANGED <<wins, losses, total_won, total_lost>>
        /\ FLess(Cent, pnl)
              => /\ wins' = wins + 1
                 /\ total_won' = FAdd(total_won, pnl)
                 /\ UNCHANGED <<losses, total_lost>>
        /\ FLess(pnl, FNeg(Cent))
              => /\ losses' = losses + 1
                 /\ total_lost' = FAdd(total_lost, FAbs(pnl))
                 /\ UNCHANGED <<wins, total_won>>]_vars

\* Market a, with a net of exactly 0.01, has been visited and counted
\* neither as a win nor as a loss.
C2_Witness ==
    /\ pc = "returned"
    /\ "a" \in market_slugs
    /\ market_cashflow["a"] = Cent
    /\ wins = 0
    /\ losses = 0
    /\ total_won = FZero

(***************************************************************************)
(* C3.  Visiting a market with exactly one BUY record changes neither      *)
(* Duplicated Bets nor Diff Outcome Count nor the details, whatever other  *)
(* records the market has.                                                 *)
(***************************************************************************)
C3_SingleEntry ==
    [][(MetricsTurn /\ Cardinality(BuysOf(VisitedSlug)) = 1)
          => UNCHANGED <<duplicated_bets_count, duplicated_diff_outcome,
                         duplicated_details>>]_vars

\* Market a has one BUY, a SELL or settlement and a held position, and
\* the summary returned counts no duplicate.
C3_Witness ==
    /\ pc = "returned"
    /\ Cardinality(BuysOf("a")) = 1
    /\ \E k \in DOMAIN activities :
          activities[k].slug = "a" /\ activities[k].type \in {"REDEEM", "MERGE"}
    /\ \E k \in DOMAIN positions : positions[k].slug = "a"
    /\ ret[1].DuplicatedBets = 0
    /\ ret[1].DiffOutcomeCount = 0

(***************************************************************************)
(* C4.  Visiting a market with two BUY records of the same outcome label   *)
(* adds one to Duplicated Bets, leaves Diff Outcome Count as it is and     *)
(* adds no entry to the details.                                           *)
(***************************************************************************)
C4_SameOutcome ==
    [][(/\ MetricsTurn
        /\ Cardinality(BuysOf(VisitedSlug)) = 2
        /\ AllLabelled(VisitedSlug)
        /\ Cardinality(LabelsOf(VisitedSlug)) = 1)
          => /\ duplicated_bets_count' = duplicated_bets_count + 1
             /\ UNCHANGED <<duplicated_diff_outcome, duplicated_details>>]_vars

\* Two BUYs of "Yes" on market a: one duplicate, no hedge, no details.
C4_Witness ==
    /\ pc = "returned"
    /\ Cardinality(BuysOf("a")) = 2
    /\ AllLabelled("a")
    /\ LabelsOf("a") = {"Yes"}
    /\ ret[1].DuplicatedBets = 1
    /\ ret[1].DiffOutcomeCount = 0
    /\ ret[1].DiffOutcomeDetails = <<>>

(***************************************************************************)
(* C5.  Visiting a market with two BUY records of different outcome labels *)
(* adds one to Duplicated Bets and one to Diff Outcome Count, and appends  *)
(* one entry to the details, which names the market and lists exactly the  *)
(* two labels.                                                             *)
(***************************************************************************)
C5_DifferentOutcomes ==
    [][(/\ MetricsTurn
        /\ Cardinality(BuysOf(VisitedSlug)) = 2
        /\ AllLabelled(VisitedSlug)
        /\ Cardinality(LabelsOf(VisitedSlug)) = 2)
          => /\ duplicated_bets_count' = duplicated_bets_count + 1
             /\ duplicated_diff_outcome' = duplicated_diff_outcome + 1
             /\ Len(duplicated_details') = Len(duplicated_details) + 1
             /\ SubSeq(duplicated_details', 1, Len(duplicated_details))
                   = duplicated_details
             /\ LET entry == duplicated_details'[Len(duplicated_details')] IN
                /\ EntrySlug(entry) = VisitedSlug
                /\ Cardinality(EntryLabelPlaces(entry)) = 2
                /\ EntryLabels(entry) = LabelsOf(VisitedSlug)]_vars

\* A BUY of "Yes" and a BUY of "No" on market a: one duplicate, one hedge,
\* and the details name a with the labels in one of the two orders.
C5_Witness ==
    /\ pc = "returned"
    /\ Cardinality(BuysOf("a")) = 2
    /\ LabelsOf("a") = {"Yes", "No"}
    /\ ret[1].DuplicatedBets = 1
    /\ ret[1].DiffOutcomeCount = 1
    /\ ret[1].DiffOutcomeDetails
          \in {<<"a", ": Different outcomes (", "Yes", ", ", "No", ")">>,
               <<"a", ": Different outcomes (", "No", ", ", "Yes", ")">>}
(***************************************************************************)
(* One market of BUY entries and REDEEM/MERGE settlements, end to end.     *)
(***************************************************************************)
\* All the user's records are BUYs and settlements of market a.
EntriesAndSettlements ==
    /\ positions = <<>>
    /\ activities # <<>>
    /\ \A k \in DOMAIN activities :
          /\ activities[k].slug = "a"
          /\ Parseable(activities[k].usdcSize)
          /\ \/ activities[k].type = "TRADE" /\ activities[k].side = "BUY"
             \/ activities[k].type \in {"REDEEM", "MERGE"}

Buy10Yes == Activity("a", "TRADE", "BUY", Number(10000), "Yes")
Buy5No == Activity("a", "TRADE", "BUY", Number(5000), "No")
Settle25 == Activity("a", "REDEEM", None, Number(25000), None)
Settle12 == Activity("a", "MERGE", None, Number(12000), None)

\* The two scenarios of the claim.
Scenarios ==
    /\ activities = <<Buy10Yes, Settle25>>
          => /\ ret[1].Wins = 1
             /\ ret[1].Losses = 0
             /\ ret[1].TotalWon = FromMilli(15000)
             /\ ret[1].TotalLost = FZero
             /\ ret[1].DuplicatedBets = 0
             /\ ret[1].DiffOutcomeCount = 0
    /\ activities = <<Buy10Yes, Buy5No, Settle12>>
          => /\ ret[1].Wins = 0
             /\ ret[1].Losses = 1
             /\ ret[1].TotalWon = FZero
             /\ ret[1].TotalLost = FromMilli(3000)
             /\ ret[1].DuplicatedBets = 1
             /\ ret[1].DiffOutcomeCount = 1
             /\ EntryLabels(ret[1].DiffOutcomeDetails) = {"Yes", "No"}

Counts ==
    /\ ret[1].DuplicatedBets = 1 <=> Cardinality(BuysOf("a")) >= 2
    /\ ret[1].DuplicatedBets \in {0, 1}
    /\ ret[1].DiffOutcomeCount = 1 <=> Cardinality(LabelsOf("a")) >= 2
    /\ ret[1].DiffOutcomeCount \in {0, 1}

(***************************************************************************)
(* C6.  As stated: the summary returned has Wins = 1 and Total Won = net   *)
(* when the settlements exceed the entries by more than 0.01, Losses = 1   *)
(* and Total Lost = |net| when the entries exceed the settlements by more  *)
(* than 0.01, and the duplicate and hedge counts as the entries make them. *)
(***************************************************************************)
C6_EndToEnd ==
    (pc = "returned" /\ EntriesAndSettlements) =>
        LET net == MilliNet("a", Len(activities), 0) IN
        /\ net > 10 => ret[1].Wins = 1 /\ ret[1].TotalWon = FromMilli(net)
        /\ net < 0 - 10
              => ret[1].Losses = 1 /\ ret[1].TotalLost = FromMilli(0 - net)
        /\ Counts
        /\ Scenarios

(***************************************************************************)
(* C6, amended.  With net the cash flow accumulated in floats in the       *)
(* order of the records: Wins = 1 and Total Won = net rounded to two       *)
(* decimals when net > 0.01, Losses = 1 and Total Lost = |net| rounded to  *)
(* two decimals when net < -0.01; the counts and the two scenarios are as  *)
(* stated.                                                                 *)
(***************************************************************************)
C6_EndToEndRounded ==
    (pc = "returned" /\ EntriesAndSettlements) =>
        LET net == FloatNet("a", Len(activities), 0) IN
        /\ FLess(Cent, net)
              => /\ ret[1].Wins = 1
                 /\ ret[1].Losses = 0
                 /\ ret[1].TotalWon = Round2(net)
                 /\ ret[1].TotalLost = FZero
        /\ FLess(net, FNeg(Cent))
              => /\ ret[1].Wins = 0
                 /\ ret[1].Losses = 1
                 /\ ret[1].TotalLost = Round2(FAbs(net))
                 /\ ret[1].TotalWon = FZero
        /\ Counts
        /\ Scenarios

\* The second scenario has returned its summary: one loss of 3, one
\* duplicate, one hedge.
C6_Witness ==
    /\ pc = "returned"
    /\ activities = <<Buy10Yes, Buy5No, Settle12>>
    /\ positions = <<>>
    /\ ret[1].Losses = 1
    /\ ret[1].TotalLost = FromMilli(3000)
    /\ ret[1].DuplicatedBets = 1
    /\ ret[1].DiffOutcomeCount = 1
(***************************************************************************)
(* The fetch loops, read off the requests they made.                       *)
(***************************************************************************)
Endpoints == {"activity", "positions"}

\* The loop of the endpoint has returned its list.
Returned(endpoint) ==
    IF endpoint = "activity" THEN pc # "fetch_activity"
    ELSE pc \notin {"fetch_activity", "fetch_positions"}

ListOf(endpoint) == IF endpoint = "activity" THEN activities ELSE positions

\* The pages received, one after the other.
RECURSIVE PagesOf(_)
PagesOf(reqs) ==
    IF reqs = <<>> THEN <<>>
    ELSE IF Head(reqs).status = 200
         THEN Page(Head(reqs).offset, Head(reqs).size) \o PagesOf(Tail(reqs))
    ELSE PagesOf(Tail(reqs))

\* The answers that carried a page, and the requests left when the
\* rate-limited ones are taken out.
Answered(reqs) == SelectSeq(reqs, LAMBDA r : r.status = 200)
NotLimited(reqs) == SelectSeq(reqs, LAMBDA r : r.status # 429)

(***************************************************************************)
(* C7.  A fetch loop stops at the first page that is empty or shorter than *)
(* limit: that answer is the last request of the loop and the loop has     *)
(* returned; what it returns is the pages received, in order; and pages of *)
(* 100, 100 and 40 records are asked for at offsets 0, 100 and 200 and     *)
(* make 240 records.                                                       *)
(***************************************************************************)
C7_Pagination ==
    \A e \in Endpoints :
        LET reqs == RequestsOf(e) IN
        /\ \A k \in DOMAIN reqs :
              (reqs[k].status = 200 /\ reqs[k].size < limit)
                 => k = Len(reqs) /\ Returned(e)
        /\ ListOf(e) = PagesOf(reqs)
        /\ [k \in DOMAIN reqs |-> reqs[k].size] = <<100, 100, 40>>
              /\ Len(Answered(reqs)) = 3
              => /\ [k \in DOMAIN reqs |-> reqs[k].offset] = <<0, 100, 200>>
                 /\ Len(ListOf(e)) = 240
                 /\ Returned(e)

\* fetch_user_activity has returned 240 records after pages of 100, 100
\* and 40.
C7_Witness ==
    /\ pc = "fetch_positions"
    /\ [k \in DOMAIN requests |-> requests[k].size] = <<100, 100, 40>>
    /\ [k \in DOMAIN requests |-> requests[k].status] = <<200, 200, 200>>
    /\ Len(activities) = 240

(***************************************************************************)
(* C8.  After an answer 429 the loop's next request has the same offset;   *)
(* the answer adds no record; and the list is the one of a run with no     *)
(* 429: the other requests are at offsets 0, limit, 2*limit, ... and the   *)
(* list holds the user's records from the first on, none left out and none *)
(* twice.                                                                  *)
(***************************************************************************)
C8_RateLimit ==
    \A e \in Endpoints :
        LET reqs == RequestsOf(e)
            rest == NotLimited(reqs)
        IN /\ \A k \in DOMAIN reqs :
                 (reqs[k].status = 429 /\ k < Len(reqs))
                    => reqs[k + 1].offset = reqs[k].offset
           /\ \A k \in DOMAIN rest : rest[k].offset = (k - 1) * limit
           /\ ListOf(e) = [k \in 1..Len(ListOf(e)) |-> k]
           /\ ListOf(e) = PagesOf(rest)

\* The second page of the activity was answered 429 and asked for again,
\* and the loop has returned both pages.
C8_Witness ==
    /\ pc = "fetch_positions"
    /\ Len(requests) = 3
    /\ [k \in DOMAIN requests |-> requests[k].status] = <<200, 429, 200>>
    /\ [k \in DOMAIN requests |-> requests[k].offset] = <<0, 100, 100>>
    /\ Len(activities) = 140

(***************************************************************************)
(* C9.  As stated: a record whose amount cannot be parsed is skipped, the  *)
(* user's analysis returns a summary and run collects the user's row.      *)
(***************************************************************************)
C9_UnparseableSkipped ==
    /\ pc # "raised"
    /\ pc \in {"collected", "failed"} => Len(results) = 1

(***************************************************************************)
(* C10.  As stated: every market key an event was applied to is            *)
(* classified, one that only position records name included; so Wins is    *)
(* the number of such markets with a net cash flow above 0.01.             *)
(***************************************************************************)
TouchedKeys ==
    {activities[k].slug : k \in DOMAIN activities}
        \cup {IF positions[k].slug \in {None, ""} THEN positions[k].eventSlug
              ELSE positions[k].slug : k \in DOMAIN positions}

C10_EveryTouchedMarket ==
    pc = "returned" =>
        ret[1].Wins = Cardinality({s \in TouchedKeys \ {None, ""} :
                                      FLess(Cent, market_cashflow[s])})

(***************************************************************************)
(* A fetch that ends on an error, and the summary a list of records gives. *)
(***************************************************************************)
AnalysisPhases ==
    {"analyze", "metrics", "returned", "raised", "collected", "failed"}

\* The loop of the endpoint ended on an error answer.
Errored(endpoint) ==
    LET reqs == RequestsOf(endpoint)
    IN reqs # <<>> /\ reqs[Len(reqs)].status \notin {200, 429}

\* The markets a list of activity records names.
SlugsOf(acts) == {acts[k].slug : k \in DOMAIN acts} \ {None, ""}

\* The net of market s over the records lo..hi of a list of activity
\* records and of a list of position records, in thousandths of a dollar.
RECURSIVE MilliSum(_, _, _, _)
MilliSum(acts, s, lo, hi) ==
    IF lo > hi THEN 0
    ELSE IF lo = hi THEN SignedMilli(acts[lo], s)
    ELSE LET mid == (lo + hi) \div 2
         IN MilliSum(acts, s, lo, mid) + MilliSum(acts, s, mid + 1, hi)

RECURSIVE HeldSum(_, _, _, _)
HeldSum(poss, s, lo, hi) ==
    IF lo > hi THEN 0
    ELSE IF lo = hi THEN HeldMilli(poss[lo], s)
    ELSE LET mid == (lo + hi) \div 2
         IN HeldSum(poss, s, lo, mid) + HeldSum(poss, s, mid + 1, hi)

\* The net of market s on the records of the two lists (amounts of whole
\* dollars, which floats add exactly).
NetOf(acts, poss, s) ==
    MilliSum(acts, s, 1, Len(acts)) + HeldSum(poss, s, 1, Len(poss))

\* The markets won and lost on those records, and what they total.
WonOf(acts, poss) == {s \in SlugsOf(acts) : NetOf(acts, poss, s) > 10}
LostOf(acts, poss) == {s \in SlugsOf(acts) : NetOf(acts, poss, s) < 0 - 10}

RECURSIVE TotalOf(_, _, _)
TotalOf(S, acts, poss) ==
    IF S = {} THEN 0
    ELSE LET s == CHOOSE x \in S : TRUE
             net == NetOf(acts, poss, s)
         IN TotalOf(S \ {s}, acts, poss) + (IF net < 0 THEN 0 - net ELSE net)

\* The BUY records of market s in a list, and the labels they carry.
BuysIn(acts, s) ==
    {k \in DOMAIN acts :
        /\ acts[k].slug = s
        /\ acts[k].type = "TRADE"
        /\ acts[k].side = "BUY"}

LabelsIn(acts, s) == {acts[k].outcome : k \in BuysIn(acts, s)} \ {None, ""}

\* The markets bought more than once, and those of them bought on more
\* than one outcome.
DuplicatedOf(acts) == {s \in SlugsOf(acts) : Cardinality(BuysIn(acts, s)) > 1}
HedgedOf(acts) ==
    {s \in DuplicatedOf(acts) : Cardinality(LabelsIn(acts, s)) > 1}

\* The win and loss fields of the summary returned are those of the
\* records of the two lists.
SummaryFrom(acts, poss) ==
    /\ ret[1].Wins = Cardinality(WonOf(acts, poss))
    /\ ret[1].Losses = Cardinality(LostOf(acts, poss))
    /\ ret[1].TotalWon = FromMilli(TotalOf(WonOf(acts, poss), acts, poss))
    /\ ret[1].TotalLost = FromMilli(TotalOf(LostOf(acts, poss), acts, poss))

\* And so are the duplicate and hedge fields.
CountsFrom(acts) ==
    /\ ret[1].DuplicatedBets = Cardinality(DuplicatedOf(acts))
    /\ ret[1].DiffOutcomeCount = Cardinality(HedgedOf(acts))
    /\ HedgedOf(acts) = {} => ret[1].DiffOutcomeDetails = <<>>
    /\ Cardinality(HedgedOf(acts)) = 1
          => /\ EntrySlug(ret[1].DiffOutcomeDetails) \in HedgedOf(acts)
             /\ EntryLabels(ret[1].DiffOutcomeDetails)
                   = LabelsIn(acts, EntrySlug(ret[1].DiffOutcomeDetails))

(***************************************************************************)
(* C11.  As stated: when a page request fails with an error other than     *)
(* 429, the summary returned is computed from exactly the records of the   *)
(* pages received before the error; so after a failed activity request     *)
(* from none of the position records, which are all received after it.     *)
(***************************************************************************)
C11_BeforeError ==
    (pc = "returned" /\ (Errored("activity") \/ Errored("positions")))
        => SummaryFrom(activities,
                       IF Errored("activity") THEN <<>> ELSE positions)

(***************************************************************************)
(* What the code does in the case of C11.  An error answer ends the loop  *)
(* of its endpoint only and raises nothing: the positions are still        *)
(* fetched after a failed activity request, the analysis runs on exactly   *)
(* the pages each endpoint answered before its error, and the summary      *)
(* returned is the one of those records.                                   *)
(***************************************************************************)
C11_PartialData ==
    /\ \A e \in Endpoints :
          \A k \in DOMAIN RequestsOf(e) :
             RequestsOf(e)[k].status \notin {200, 429}
                => k = Len(RequestsOf(e)) /\ Returned(e)
    /\ Errored("activity") /\ pc = "fetch_positions"
          => activities = PagesOf(RequestsOf("activity"))
    /\ pc \in AnalysisPhases
          => /\ activities = ActivitiesAt(PagesOf(RequestsOf("activity")))
             /\ positions = PositionsAt(PagesOf(RequestsOf("positions")))
             /\ pc # "raised"
    /\ pc = "returned"
          => SummaryFrom(activities, positions) /\ CountsFrom(activities)

\* The second activity request failed after a page of 100 records, 40
\* position records were fetched after it, and the summary counts both.
C11_Witness ==
    /\ pc = "returned"
    /\ [k \in DOMAIN RequestsOf("activity") |->
           RequestsOf("activity")[k].status] = <<200, 500>>
    /\ Len(activities) = 100
    /\ Len(positions) = 40
    /\ ret[1].Wins = 1
    /\ ret[1].TotalWon = FromMilli(775000)
    /\ ret[1].Losses = 1
    /\ ret[1].TotalLost = FromMilli(25000)

(***************************************************************************)
(* One turn of the two record loops, and the kinds of activity records.    *)
(***************************************************************************)
ActivityTurn == pc = "analyze" /\ i' = i + 1
PositionTurn == pc = "analyze" /\ j' = j + 1

IsEntry(item) == item.type = "TRADE" /\ item.side = "BUY"

(***************************************************************************)
(* C12.  A SELL, REDEEM or MERGE record and a position record leave        *)
(* market_buys and market_outcomes of every market as they were; whenever  *)
(* one of the two changes, the step has applied a BUY record.              *)
(***************************************************************************)
C12_OnlyEntries ==
    [][/\ (ActivityTurn /\ ~IsEntry(activities[i]))
             => UNCHANGED <<market_buys, market_outcomes>>
       /\ PositionTurn => UNCHANGED <<market_buys, market_outcomes>>
       /\ (market_buys' # market_buys \/ market_outcomes' # market_outcomes)
             => (ActivityTurn /\ IsEntry(activities[i]))]_vars

\* A BUY of "Yes", then a SELL, then a held position of market a have been
\* applied: one entry and one label.
C12_Witness ==
    /\ pc = "metrics"
    /\ Len(activities) = 2
    /\ IsEntry(activities[1])
    /\ activities[2].slug = "a" /\ activities[2].side = "SELL"
    /\ Len(positions) = 1
    /\ PositionSlug(positions[1]) = "a"
    /\ market_buys["a"] = 1
    /\ market_outcomes["a"] = {"Yes"}

(***************************************************************************)
(* Records with no market key, and the lists without them.                 *)
(***************************************************************************)
HasKey(item) == item.slug \notin {None, ""}
HasPositionKey(pos) ==
    pos.slug \notin {None, ""} \/ pos.eventSlug \notin {None, ""}

Keyed(acts) == SelectSeq(acts, HasKey)
KeyedPositions(poss) == SelectSeq(poss, HasPositionKey)

(***************************************************************************)
(* C13.  The turn of an activity record with no slug, or of a position     *)
(* record with neither slug nor eventSlug, raises nothing and changes no   *)
(* market's cash flow, entry count or outcome set nor the set of market    *)
(* keys; and the summary returned is the one of the lists without such     *)
(* records.                                                                *)
(***************************************************************************)
C13_NoKeyDropped ==
    /\ [][((pc = "analyze" /\ i <= Len(activities) /\ ~HasKey(activities[i]))
             \/ (pc = "analyze" /\ i > Len(activities) /\ j <= Len(positions)
                   /\ ~HasPositionKey(positions[j])))
            => /\ pc' = "analyze"
               /\ <<i', j'>> \in {<<i + 1, j>>, <<i, j + 1>>}
               /\ UNCHANGED ledger]_vars
    /\ [](pc = "returned"
            => /\ SummaryFrom(Keyed(activities), KeyedPositions(positions))
               /\ CountsFrom(Keyed(activities)))

\* A settlement with no slug and a position with no key were passed over,
\* and the summary is the one of the settlement of market a alone.
C13_Witness ==
    /\ pc = "returned"
    /\ Len(activities) = 2
    /\ ~HasKey(activities[1])
    /\ activities[2] = Activity("a", "REDEEM", None, Number(25000), None)
    /\ Len(positions) = 1
    /\ ~HasPositionKey(positions[1])
    /\ market_slugs = {"a"}
    /\ ret[1].Wins = 1
    /\ ret[1].TotalWon = FromMilli(25000)

(***************************************************************************)
(* Activity records that are no event, and the list without them.          *)
(***************************************************************************)
Meaningful(item) ==
    \/ item.type \in {"REDEEM", "MERGE"}
    \/ item.type = "TRADE" /\ item.side \in {"BUY", "SELL"}

EventsOnly(acts) == SelectSeq(acts, Meaningful)

(***************************************************************************)
(* C14.  As stated: an activity record that is neither a BUY, a SELL, a    *)
(* REDEEM nor a MERGE produces no event, so the summary returned (Wins,    *)
(* Losses, Total Won, Total Lost, Duplicated Bets, Diff Outcome Count) is  *)
(* the one of the list without such records.                               *)
(***************************************************************************)
C14_NoEvent ==
    pc = "returned"
        => /\ SummaryFrom(EventsOnly(activities), positions)
           /\ CountsFrom(EventsOnly(activities))

(***************************************************************************)
(* The pool of run, read off the futures.                                  *)
(***************************************************************************)
InProgress == FuturesIn({"running"})
Completed == FuturesIn({"returned", "raised", "collected", "caught"})

\* The places of results that hold the row of the user of row k.
PlacesOf(k) == {n \in DOMAIN results : results[n].row = k}

(***************************************************************************)
(* C15.  At every moment at most 3 analyses are in progress, and an        *)
(* analysis starts only when fewer than 3 are in progress.                 *)
(***************************************************************************)
C15_BoundedPool ==
    /\ [](Cardinality(InProgress) <= 3)
    /\ [][Cardinality(InProgress') > Cardinality(InProgress)
             => Cardinality(InProgress) < 3]_vars

\* Three analyses are in progress and a fourth user waits for a thread.
C15_Witness ==
    /\ Cardinality(InProgress) = 3
    /\ FuturesIn({"pending"}) # {}
    /\ Cardinality(DOMAIN future_to_user) = 4

(***************************************************************************)
(* C16.  Whatever the order in which the tasks complete, results holds at  *)
(* every moment one row at most for a user and only rows of analyses that  *)
(* returned; when the output is written every task has completed, every    *)
(* user whose analysis returned has exactly one row, and the file holds    *)
(* those rows.                                                             *)
(***************************************************************************)
C16_ExactlyOnce ==
    /\ \A k \in DOMAIN future_to_user :
          /\ Cardinality(PlacesOf(k)) <= 1
          /\ PlacesOf(k) # {} <=> future_to_user[k] = "collected"
    /\ \A n \in DOMAIN results : results[n].row \in DOMAIN future_to_user
    /\ output.exists
          => /\ Completed = DOMAIN future_to_user
             /\ \A k \in DOMAIN future_to_user :
                   future_to_user[k] \in {"collected", "caught"}
             /\ Len(results) = Cardinality(FuturesIn({"collected"}))
             /\ output = File(<<"header">> \o results)

\* Three users were analysed, the rows were collected in another order
\* than the users were submitted, and the file holds the three rows.
C16_Witness ==
    /\ pc = "saved"
    /\ Len(results) = 3
    /\ results[1].row = 3
    /\ results[3].row = 1
    /\ Len(output.lines) = 4

(***************************************************************************)
(* C17.  An error of one user's analysis stops nothing else: run never     *)
(* ends on it, goes on until the output is written, and the output holds   *)
(* the row of every other user whose analysis returned.                    *)
(***************************************************************************)
C17_ErrorConfined ==
    /\ pc # "crashed"
    /\ pc \in {"submit", "collect"} => ENABLED NextRun
    /\ pc = "saved"
          => /\ output.exists
             /\ \A k \in DOMAIN future_to_user :
                   future_to_user[k] # "caught"
                      => \E n \in 2..Len(output.lines) :
                            output.lines[n] = RowOf(k)

\* The analysis of one user raised, those of two others returned, and the
\* file written holds the rows of the two.
C17_Witness ==
    /\ pc = "saved"
    /\ Cardinality(FuturesIn({"caught"})) = 1
    /\ Cardinality(FuturesIn({"collected"})) = 2
    /\ Len(output.lines) = 3

(***************************************************************************)
(* C18.  When the input table cannot be loaded (the file is missing or     *)
(* unreadable, or has no Profile URL column) nothing is processed: no      *)
(* analysis is started, no page is requested, no row is made and the       *)
(* output file is not written.                                             *)
(***************************************************************************)
C18_LoadFailure ==
    /\ [](csv.state # "ok"
            => /\ future_to_user = <<>>
               /\ requests = <<>>
               /\ results = <<>>
               /\ all_stats = <<>>
               /\ pc \notin {"submit", "collect", "saved", "main_crashed"})
    /\ [][csv.state # "ok" => output' = output]_vars

\* run has returned on a table without its Profile URL column, and there
\* is no output file.
C18_Witness ==
    /\ csv.state = "no_column"
    /\ csv.rows # <<>>
    /\ pc = "no_users"
    /\ output = NoFile
    /\ requests = <<>>

(***************************************************************************)
(* C20.  As stated: after each user is processed the output file holds     *)
(* the header line and then one row for every user processed so far, in    *)
(* the order they were processed.                                          *)
(***************************************************************************)
C20_IncrementalRows ==
    (pc \in {"main_loop", "main_done", "main_crashed"} /\ count >= 1)
        => output = File(<<"header">> \o all_stats)

(***************************************************************************)
(* C19.  As stated: the turn of a row whose text does not match            *)
(* '<status> <amount> <outcome_label> at <price>' adds nothing to wins,    *)
(* losses, total won, total lost, the duplicate groups or the outcome sets *)
(* of the markets.                                                         *)
(***************************************************************************)
C19_UnmatchedDropped ==
    [][(/\ pc = "text"
        /\ i <= Len(unique_bets_data)
        /\ MatchStarts(FullText(unique_bets_data[i])) = {})
          => UNCHANGED <<wins, losses, total_won, total_lost, bet_history,
                         market_outcomes>>]_vars

\* The rows of the table whose user has had a task started, and the rows
\* of the table that hold a wallet.
Analysed == {requests[n].row : n \in DOMAIN requests}
WithWallet ==
    IF csv.state = "ok"
    THEN {k \in DOMAIN csv.rows : csv.rows[k].ProfileURL.str}
    ELSE {}

(***************************************************************************)
(* C21.  With a limit N >= 1 only users of the first N rows of the table   *)
(* are submitted and analysed, hence N users at most; when the run has     *)
(* saved, the users analysed are the rows with a wallet among the first N, *)
(* and with no limit every row that has a wallet.                          *)
(***************************************************************************)
C21_Limit ==
    /\ Analysed \subseteq DOMAIN future_to_user
    /\ DOMAIN future_to_user \subseteq WithWallet
    /\ (user_limit.given /\ user_limit.n >= 1) =>
          /\ \A k \in DOMAIN future_to_user : k <= user_limit.n
          /\ Cardinality(DOMAIN future_to_user) <= user_limit.n
          /\ pc = "saved" =>
                Analysed = {k \in WithWallet : k <= user_limit.n}
    /\ (~user_limit.given /\ pc = "saved") => Analysed = WithWallet

\* A limit of two on a table of four users with a wallet: the two first
\* were analysed and the run has saved.
C21_Witness ==
    /\ pc = "saved"
    /\ user_limit = Limit(2)
    /\ WithWallet = 1..4
    /\ Analysed = {1, 2}

\* The markets the metrics loop has visited.
Visited == market_slugs \ todo

(***************************************************************************)
(* C22.  At every point of a user's analysis each market has at most as    *)
(* many outcome labels as BUY entries, so a market of one entry at most    *)
(* has one label at most and a market of several labels has several        *)
(* entries; Diff Outcome Count never exceeds Duplicated Bets, which never  *)
(* exceeds the number of markets with activity.                            *)
(***************************************************************************)
C22_LabelsWithinEntries ==
    /\ \A s \in MarketKeys :
          /\ Cardinality(market_outcomes[s]) <= market_buys[s]
          /\ market_buys[s] <= 1 => Cardinality(market_outcomes[s]) <= 1
          /\ Cardinality(market_outcomes[s]) > 1 => market_buys[s] > 1
    /\ pc \in {"metrics", "returned", "collected"} =>
          /\ duplicated_diff_outcome
                = Cardinality({s \in Visited :
                                  Cardinality(market_outcomes[s]) > 1})
          /\ duplicated_bets_count
                = Cardinality({s \in Visited : market_buys[s] > 1})
          /\ duplicated_diff_outcome <= duplicated_bets_count
          /\ duplicated_bets_count <= Cardinality(Visited)
          /\ Cardinality(Visited) <= Cardinality(SlugsOf(activities))
    /\ pc \in {"returned", "collected"} =>
          /\ ret[1].DiffOutcomeCount <= ret[1].DuplicatedBets
          /\ ret[1].DuplicatedBets <= Cardinality(SlugsOf(activities))

\* A BUY of "Yes" and a BUY without a label on market a: two entries, one
\* label, a duplicate that is no hedge.
C22_Witness ==
    /\ pc = "returned"
    /\ market_buys["a"] = 2
    /\ market_outcomes["a"] = {"Yes"}
    /\ \E k \in BuysOf("a") : activities[k].outcome = None
    /\ ret[1].DuplicatedBets = 1
    /\ ret[1].DiffOutcomeCount = 0

\* What a turn of the metrics loop does to the counts and the totals.
CountsWin(pnl) ==
    /\ wins' = wins + 1
    /\ total_won' = FAdd(total_won, pnl)
    /\ UNCHANGED <<losses, total_lost>>

CountsLoss(pnl) ==
    /\ losses' = losses + 1
    /\ total_lost' = FAdd(total_lost, FNeg(pnl))
    /\ UNCHANGED <<wins, total_won>>

CountsNothing == UNCHANGED <<wins, losses, total_won, total_lost>>

\* The market keys of the user's records.
DistinctKeys ==
    SlugsOf(activities)
        \cup ({IF positions[k].slug \in {None, ""} THEN positions[k].eventSlug
               ELSE positions[k].slug : k \in DOMAIN positions} \ {None, ""})

(***************************************************************************)
(* C23.  A visited market counts as one win with its positive net added to *)
(* total_won, or as one loss with the absolute value of its negative net   *)
(* added to total_lost, or as nothing; a market whose net lies within      *)
(* [-0.01, 0.01], and so one whose amounts sum to zero, counts as nothing. *)
(* Wins + Losses never exceeds the number of markets visited nor the       *)
(* number of distinct market keys, and neither total is ever negative.     *)
(***************************************************************************)
C23_OneClass ==
    /\ [][MetricsTurn =>
            LET pnl == market_cashflow[VisitedSlug] IN
            /\ \/ CountsWin(pnl) /\ FLess(FZero, pnl)
               \/ CountsLoss(pnl) /\ FLess(pnl, FZero)
               \/ CountsNothing
            /\ (~FLess(Cent, pnl) /\ ~FLess(pnl, FNeg(Cent))) => CountsNothing
            /\ MilliNet(VisitedSlug, Len(activities), Len(positions)) = 0
                  => CountsNothing]_vars
    /\ [](pc \in {"metrics", "returned", "collected"} =>
            /\ wins + losses <= Cardinality(Visited)
            /\ wins + losses <= Cardinality(DistinctKeys)
            /\ ~FLess(total_won, FZero)
            /\ ~FLess(total_lost, FZero)
            /\ pc # "metrics" =>
                  /\ ret[1].Wins + ret[1].Losses <= Cardinality(DistinctKeys)
                  /\ ~FLess(ret[1].TotalWon, FZero)
                  /\ ~FLess(ret[1].TotalLost, FZero))

\* Market a was bought for 0.01 and sold for 0.01, market b redeemed
\* 0.011: a counts as nothing, b as the one win.
C23_Witness ==
    /\ pc = "returned"
    /\ market_slugs = {"a", "b"}
    /\ market_buys["a"] = 1
    /\ MilliNet("a", Len(activities), Len(positions)) = 0
    /\ market_cashflow["a"] = FZero
    /\ ret[1].Wins = 1
    /\ ret[1].Losses = 0

(***************************************************************************)
(* The summary as a function of the two lists of records, taken in the     *)
(* order they have, and the lists in another order.                        *)
(***************************************************************************)
OrderingsOf(n) ==
    {p \in [1..n -> 1..n] : \A a, b \in 1..n : a # b => p[a] # p[b]}

Permuted(list, p) == [k \in DOMAIN list |-> list[p[k]]]

RECURSIVE FloatSumOf(_, _, _, _, _)
FloatSumOf(acts, poss, s, n, m) ==
    IF m > 0
    THEN FAdd(FloatSumOf(acts, poss, s, n, m - 1), HeldAmount(poss[m], s))
    ELSE IF n > 0
         THEN FAdd(FloatSumOf(acts, poss, s, n - 1, 0),
                   SignedAmount(acts[n], s))
    ELSE FZero

\* The sum of the magnitudes of the nets of a set of markets (of two
\* markets at most, so that the order of the additions is immaterial).
RECURSIVE SumOver(_, _)
SumOver(S, net) ==
    IF S = {} THEN FZero
    ELSE LET s == CHOOSE x \in S : TRUE
         IN FAdd(SumOver(S \ {s}, net),
                 IF net[s].neg THEN FNeg(net[s]) ELSE net[s])

FieldsOf(acts, poss) ==
    LET net == [s \in MarketKeys |->
                   FloatSumOf(acts, poss, s, Len(acts), Len(poss))]
        won == {s \in SlugsOf(acts) : FLess(Cent, net[s])}
        lost == {s \in SlugsOf(acts) : FLess(net[s], FNeg(Cent))}
    IN [Wins |-> Cardinality(won),
        Losses |-> Cardinality(lost),
        TotalWon |-> Round2(SumOver(won, net)),
        TotalLost |-> Round2(SumOver(lost, net)),
        DuplicatedBets |-> Cardinality(DuplicatedOf(acts)),
        DiffOutcomeCount |-> Cardinality(HedgedOf(acts)),
        Hedged |-> {<<s, LabelsIn(acts, s)>> : s \in HedgedOf(acts)}]

\* The same fields of the row returned.
RowFields ==
    [Wins |-> ret[1].Wins,
     Losses |-> ret[1].Losses,
     TotalWon |-> ret[1].TotalWon,
     TotalLost |-> ret[1].TotalLost,
     DuplicatedBets |-> ret[1].DuplicatedBets,
     DiffOutcomeCount |-> ret[1].DiffOutcomeCount,
     Hedged |-> {<<EntrySlug(duplicated_details[k]),
                   EntryLabels(duplicated_details[k])>> :
                    k \in DOMAIN duplicated_details}]

\* The fields that do not hang on an amount.
CountFields(f) == <<f.DuplicatedBets, f.DiffOutcomeCount, f.Hedged>>

WholeAmounts ==
    /\ \A k \in DOMAIN activities : activities[k].usdcSize.milli % 1000 = 0
    /\ \A k \in DOMAIN positions : positions[k].currentValue.milli % 1000 = 0

(***************************************************************************)
(* C24.  As stated: Wins, Losses, Total Won, Total Lost, Duplicated Bets,  *)
(* Diff Outcome Count and the hedged markets with their outcome sets of    *)
(* the row returned are those of every ordering of the user's activity     *)
(* records and of the user's position records.                             *)
(***************************************************************************)
C24_AnyOrder ==
    pc = "returned" =>
        \A p \in OrderingsOf(Len(activities)) :
           \A q \in OrderingsOf(Len(positions)) :
              FieldsOf(Permuted(activities, p), Permuted(positions, q))
                 = RowFields

(***************************************************************************)
(* C24, amended.  The row returned is that of the records in the order     *)
(* they have; Duplicated Bets, Diff Outcome Count and the hedged markets   *)
(* with their outcome sets are the same for every ordering of the records, *)
(* and so are Wins, Losses, Total Won and Total Lost when every amount is  *)
(* a whole number of dollars.                                              *)
(***************************************************************************)
C24_OrderFree ==
    pc = "returned" =>
        /\ RowFields = FieldsOf(activities, positions)
        /\ \A p \in OrderingsOf(Len(activities)) :
              \A q \in OrderingsOf(Len(positions)) :
                 LET f == FieldsOf(Permuted(activities, p),
                                   Permuted(positions, q))
                 IN /\ CountFields(f) = CountFields(RowFields)
                    /\ WholeAmounts => f = RowFields

\* The settlement of 25 listed before the BUY of 10 on market a, and 5
\* held: one win of 20, as with the BUY listed first.
C24_Witness ==
    /\ pc = "returned"
    /\ WholeAmounts
    /\ Len(activities) = 2
    /\ activities[1].type = "REDEEM"
    /\ activities[2].type = "TRADE"
    /\ Len(positions) = 1
    /\ positions[1].slug = "a"
    /\ RowFields.Wins = 1
    /\ RowFields.TotalWon = FromMilli(20000)

\* The places of the activity requests answered with an error.
FailedActivityRequests ==
    {k \in DOMAIN requests :
        /\ requests[k].endpoint = "activity"
        /\ requests[k].status \notin {200, 429}}

(***************************************************************************)
(* C25.  As stated: when the activity fetch of a user ends with an error   *)
(* the analysis terminates early, so that no page request of that user     *)
(* follows the failed one: the positions fetch is not started.             *)
(***************************************************************************)
C25_TerminatesEarly ==
    \A k \in FailedActivityRequests : k = Len(requests)

\* The requests the task of u made to an endpoint, the list its loop for
\* that endpoint holds, and whether that loop has returned.
TaskRequests(u, endpoint) ==
    SelectSeq(tasks[u].requests, LAMBDA r : r.endpoint = endpoint)

TaskList(u, endpoint) ==
    IF endpoint = "activity" THEN tasks[u].activities ELSE tasks[u].positions

TaskReturned(u, endpoint) ==
    IF endpoint = "activity" THEN tasks[u].pc # "fetch_activity"
    ELSE tasks[u].pc = "fetched"

\* The task of u has just had a request answered with an error.
JustFailed(u) ==
    /\ Len(tasks'[u].requests) = Len(tasks[u].requests) + 1
    /\ tasks'[u].requests[Len(tasks'[u].requests)].status \notin {200, 429}

(***************************************************************************)
(* C26.  A request answered with an error other than 429 is the last       *)
(* request of its loop (it is not asked again and no later offset is       *)
(* asked for) and that loop returns; the step leaves the tasks of the      *)
(* other users as they are, their loops can still take their turns, and    *)
(* the list of every loop is made of the pages answered to its own         *)
(* requests, whatever happened to the requests of the other users.         *)
(***************************************************************************)
C26_ErrorEndsOneLoop ==
    /\ [](\A u \in PoolUsers :
            /\ \A e \in Endpoints :
                  /\ \A k \in DOMAIN TaskRequests(u, e) :
                        TaskRequests(u, e)[k].status \notin {200, 429}
                           => /\ k = Len(TaskRequests(u, e))
                              /\ TaskReturned(u, e)
                  /\ TaskList(u, e) = PagesOf(TaskRequests(u, e))
            /\ (/\ tasks[u].pc # "fetched"
                /\ Len(tasks[u].requests) < MaxTaskRequests)
                  => ENABLED (TaskFetchActivity(u) \/ TaskFetchPositions(u)))
    /\ [][\A u \in PoolUsers :
             JustFailed(u) =>
                \A v \in PoolUsers \ {u} : tasks'[v] = tasks[v]]_vars

\* The first activity request of user 1 failed and its loop has returned,
\* and user 2 has fetched 140 activity records in two pages and its
\* positions.
C26_Witness ==
    /\ tasks[1].requests
          = <<[endpoint |-> "activity", offset |-> 0, status |-> 500,
               size |-> 0]>>
    /\ tasks[1].pc = "fetch_positions"
    /\ tasks[2].pc = "fetched"
    /\ Len(tasks[2].activities) = 140

(***************************************************************************)
(* C27.  When the source answers 429 to each request only finitely many    *)
(* times and has finitely many full pages, both fetch loops return.  A     *)
(* loop that is running can always take one more turn answered 429 (the    *)
(* retries of a page have no cap), and such a turn leaves the loop where   *)
(* it is: the same offset, the same lists.                                 *)
(***************************************************************************)
C27_EventuallyReturns ==
    /\ <>(pc = "fetched")
    /\ [](pc \in {"fetch_activity", "fetch_positions"} => ENABLED RetryTurn)
    /\ [][RetryTurn =>
            /\ pc' = pc
            /\ offset' = offset
            /\ activities' = activities
            /\ positions' = positions]_vars

\* The request of the second page of activity has just been answered
\* 429: the loop still stands at offset 100 with its first page.
C27_Witness ==
    /\ pc = "fetch_activity"
    /\ requests = <<[endpoint |-> "activity", offset |-> 100,
                     status |-> 429, size |-> 0]>>
    /\ offset = 100
    /\ Len(activities) = 100

\* The markets for which more than one outcome was found.
HedgedTitles == {t \in Titles : Cardinality(market_outcomes[t]) > 1}

(***************************************************************************)
(* C28.  As stated: in the row of a user, Hedged Bets is the number of     *)
(* markets for which more than one outcome was found, and the notes list   *)
(* each of these markets with its outcomes, whether or not some (title,    *)
(* outcome) pair occurs more than once.  Stated of the pages whose rows all *)
(* match the pattern of C19.                                               *)
(***************************************************************************)
C28_HedgedBets ==
    (/\ pc = "stat_filled"
     /\ \A k \in DOMAIN unique_bets_data :
           MatchStarts(FullText(unique_bets_data[k])) # {}) =>
        LET stat == all_stats[Len(all_stats)] IN
        /\ stat.HedgedBets = Cardinality(HedgedTitles)
        /\ \A t \in HedgedTitles :
              HedgedNote([title |-> t, outcomes |-> market_outcomes[t]])
                 \in stat.Notes

(***************************************************************************)
(* C29.  As stated: after each turn of the scroll loop the rows collected  *)
(* are the rows rendered so far, each once and in the order of the page:   *)
(* of a batch that overlaps the rows collected only the rows after the     *)
(* overlap are appended, none twice and none left out, rows equal in text  *)
(* and link to the rows before them included.                              *)
(***************************************************************************)
C29_CollectedOnce ==
    [][pc = "scroll" => unique_bets_data' = SubSeq(page, 1, view.hi)]_vars

(***************************************************************************)
(* C30.  As stated: with --bet-limit N the list of rows that is analysed   *)
(* holds N rows at most.                                                   *)
(***************************************************************************)
C30_BetLimit ==
    (/\ pc \in {"text", "text_returned"}
     /\ bet_limit.given
     /\ bet_limit.n >= 1)
        => Len(unique_bets_data) <= bet_limit.n
=============================================================================
